---- MODULE Spec2Model ----
(***************************************************************************)
(* State-machine model of the two marriage registries of proof_post:       *)
(*   RealMarriageRegistry (nullifier-bound, src/src/RealMarriageRegistry.sol) *)
(*   MarriageRegistry     (address-bound,   src/src/MarriageRegistry.sol)  *)
(* Every external function is one action that models the whole            *)
(* transaction: either all of its writes happen or it reverts and only     *)
(* the observation of the call (last, emitted) changes.                    *)
(*                                                                         *)
(* bytes32 values are modelled as naturals, bytes32(0) as 0.  keccak256 is *)
(* modelled as an injective, never-zero encoding of its preimage, one      *)
(* encoding per call site (collision resistance is idealised).             *)
(***************************************************************************)
EXTENDS Integers, Sequences, FiniteSets, Bags, TLC

VARIABLES
    registry,             \* which contract this deployment is
    now,                  \* block.timestamp of the next transaction
    \* ---- RealMarriageRegistry storage
    marriages,            \* mapping(bytes32 => Marriage), written slots only
    proposals,            \* mapping(bytes32 => MarriageProposal)
    nullifierToMarriage,  \* mapping(bytes32 => bytes32)
    usedNullifiers,       \* mapping(bytes32 => bool)
    zkPassportVerifier,   \* address
    \* ---- MarriageRegistry storage
    mrMarriages,          \* mapping(bytes32 => Marriage), written slots only
    mrProposals,          \* mapping(bytes32 => MarriageProposal)
    personToMarriage,     \* mapping(bytes32 => bytes32)
    zkPassportMerkleRoot, \* bytes32
    \* ---- observation of the most recent transaction
    last,                 \* the call, its arguments and its outcome
    emitted,              \* the events it emitted, in order
    createdLog,           \* marriage ids of all MarriageCreated events logged
    \* ---- RealMarriageService (one instance, the registry's client)
    date,                 \* Date.now() of the service's host
    pendingVerifications, \* Map<string, MarriageVerificationRequest>
    completedProofs,      \* Map<string, ZKPassportProofResult>
    calls,                \* the async calls in flight, each at an await
    svcLast               \* what the latest step handed back to its caller

vars == <<registry, now, marriages, proposals, nullifierToMarriage,
          usedNullifiers, zkPassportVerifier, mrMarriages, mrProposals,
          personToMarriage, zkPassportMerkleRoot, last, emitted, createdLog,
          date, pendingVerifications, completedProofs, calls, svcLast>>

realVars == <<marriages, proposals, nullifierToMarriage, usedNullifiers,
              zkPassportVerifier>>
mrVars == <<mrMarriages, mrProposals, personToMarriage, zkPassportMerkleRoot>>
svcVars == <<date, pendingVerifications, completedProofs, calls, svcLast>>

(***************************************************************************)
(* Bounds of the model.                                                    *)
(***************************************************************************)
MaxTime == 2          \* block.timestamp ranges over 1..MaxTime

REAL == "RealMarriageRegistry"
SIMPLE == "MarriageRegistry"

OK == "ok"

\* addresses: the deployer, who is Ownable's owner, and three users
Owner == 9
Alice == 1
Bob == 2
Charlie == 3
Users == {Alice, Bob, Charlie}

(***************************************************************************)
(* keccak256 at its call sites in RealMarriageRegistry.                    *)
(***************************************************************************)
\* string -> distinct code, used inside hashed preimages
JurCode(j) == IF j = "US" THEN 1 ELSE IF j = "default" THEN 2 ELSE 3

\* keccak256(proof) for a byte string of length <= 1
KeccakProof(proof) == IF Len(proof) = 0 THEN 100 ELSE 100 + proof[1]

\* keccak256(abi.encodePacked(proofHash, "nullifier"))
KeccakNullifier(proofHash) == 2 * proofHash + 1

\* keccak256(abi.encodePacked(proposer, proposee, block.timestamp, jurisdiction))
KeccakMarriageId(p, q, t, j) == 1 + JurCode(j) + 4 * (t + 16 * (q + 1024 * p))

\* keccak256(abi.encodePacked(nullifier, "proof1")) / (.., "proof2")
KeccakProofTag(n, k) == 2 * n + k

\* keccak256(abi.encodePacked(marriageId, block.timestamp))
KeccakCertificate(m, t) == 16 * (m + 1) + t

(***************************************************************************)
(* Inputs offered to RealMarriageRegistry.                                 *)
(***************************************************************************)
EmptyProof == <<>>
ProofBlobs == {<<1>>, <<2>>, <<3>>}
NullifierOf(proof) == KeccakNullifier(KeccakProof(proof))
N1 == NullifierOf(<<1>>)
N2 == NullifierOf(<<2>>)
N3 == NullifierOf(<<3>>)

\* every nullifier value a caller supplies; 0 is bytes32(0)
Nullifiers == {0} \cup {NullifierOf(p) : p \in ProofBlobs}

\* the (proposerNullifier, proposeeNullifier, zkPassportProof1,
\* zkPassportProof2) arguments offered to createMarriageProposal: matching
\* proofs for two pairs that share a party, an empty proof, and a proof of
\* somebody else
ProposalArgs == {<<N1, N2, <<1>>, <<2>>>>, <<N1, N3, <<1>>, <<3>>>>,
                 <<N1, N2, EmptyProof, <<2>>>>, <<N1, N2, <<1>>, <<3>>>>}

\* the (spouse1Nullifier, spouse2Nullifier) arguments offered to createMarriage
SpouseArgs == {<<N3, N2>>}

ProposalIds == {1, 2}
Jurisdictions == {"US"}
ProposalHashInputs == {77}
CertificateInputs == {5}
ProofHashInputs == {66}
VerifierInputs == {51}
ExpirationInputs == {1, MaxTime}

\* the marriage id a caller of createMarriage supplies: one that
\* acceptMarriage derives as well
MarriageIdInputs == {KeccakMarriageId(N1, N2, 1, "US")}

ZeroMarriage ==
    [spouse1Nullifier |-> 0, spouse2Nullifier |-> 0, proof1Hash |-> 0,
     proof2Hash |-> 0, marriageDate |-> 0, isActive |-> FALSE,
     jurisdiction |-> "", certificateHash |-> 0]

ZeroProposal ==
    [proposerNullifier |-> 0, proposeeNullifier |-> 0, proposalHash |-> 0,
     timestamp |-> 0, expiresAt |-> 0, isAccepted |-> FALSE,
     isExpired |-> FALSE, jurisdiction |-> ""]

\* marriages[marriageId] as Solidity reads it: an unwritten slot is all zero
MarriageAt(m) == IF m \in DOMAIN marriages THEN marriages[m] ELSE ZeroMarriage

\* the storage write of the record left out
MarriagePut_NoWrite(m, rec) == marriages

\* storage write marriages[m] = rec
MarriagePut(m, rec) == [x \in (DOMAIN marriages) \cup {m} |->
                          IF x = m THEN rec ELSE marriages[x]]

\* requestDivorce emitting the dissolution alone
DivorceEvents_DissolvedOnly(marriageId, requester) ==
    <<<<"MarriageDissolved", marriageId>>>>

\* the two events a successful requestDivorce emits, in order
DivorceEvents(marriageId, requester) ==
    <<<<"DivorceRequested", marriageId, requester>>,
      <<"MarriageDissolved", marriageId>>>>

\* the marriage ids of the MarriageCreated events among the given events
CreatedIn(events) ==
    {events[i][2] : i \in {j \in DOMAIN events :
                               events[j][1] = "MarriageCreated"}}

\* what is observed of a transaction: the function, its id argument, the
\* two identities it names, its proof argument(s), msg.sender, the outcome
Call(op, id, a, b, proof, sender, result) ==
    [op |-> op, id |-> id, a |-> a, b |-> b, proof |-> proof,
     sender |-> sender, result |-> result]

\* proposal ids are opaque: a caller uses a stored one or the next unused one
StoredProposalIds == {i \in ProposalIds : proposals[i].proposerNullifier # 0}
ProposalIdInputs ==
    {i \in ProposalIds : \A k \in 1..(i - 1) : k \in StoredProposalIds}

(***************************************************************************)
(* RealMarriageRegistry                                                    *)
(***************************************************************************)
\* _verifyZKPassportProof without the comparison of the derived nullifier
VerifyZKPassportProof_NonEmptyOnly(proof, expectedNullifier) ==
    Len(proof) # 0

\* _verifyZKPassportProof
VerifyZKPassportProof(proof, expectedNullifier) ==
    IF Len(proof) = 0 THEN FALSE
    ELSE KeccakNullifier(KeccakProof(proof)) = expectedNullifier

\* createMarriageProposal without its two usedNullifiers checks
CreateMarriageProposalResult_NoUsedCheck(proposalId, proposerNullifier, proposeeNullifier, zkPassportProof1, zkPassportProof2) ==
    IF nullifierToMarriage[proposerNullifier] # 0 THEN "AlreadyMarried"
    ELSE IF nullifierToMarriage[proposeeNullifier] # 0 THEN "AlreadyMarried"
    ELSE IF proposals[proposalId].proposerNullifier # 0
         THEN "Proposal already exists"
    ELSE IF ~VerifyZKPassportProof(zkPassportProof1, proposerNullifier)
         THEN "InvalidZKPassportProof"
    ELSE IF ~VerifyZKPassportProof(zkPassportProof2, proposeeNullifier)
         THEN "InvalidZKPassportProof"
    ELSE OK

\* the revert that createMarriageProposal ends in, or OK
CreateMarriageProposalResult(proposalId, proposerNullifier, proposeeNullifier, zkPassportProof1, zkPassportProof2) ==
    IF usedNullifiers[proposerNullifier] THEN "NullifierAlreadyUsed"
    ELSE IF usedNullifiers[proposeeNullifier] THEN "NullifierAlreadyUsed"
    ELSE IF nullifierToMarriage[proposerNullifier] # 0 THEN "AlreadyMarried"
    ELSE IF nullifierToMarriage[proposeeNullifier] # 0 THEN "AlreadyMarried"
    ELSE IF proposals[proposalId].proposerNullifier # 0
         THEN "Proposal already exists"
    ELSE IF ~VerifyZKPassportProof(zkPassportProof1, proposerNullifier)
         THEN "InvalidZKPassportProof"
    ELSE IF ~VerifyZKPassportProof(zkPassportProof2, proposeeNullifier)
         THEN "InvalidZKPassportProof"
    ELSE OK

CreateMarriageProposal ==
    /\ registry = REAL
    /\ \E proposalId \in ProposalIdInputs, args \in ProposalArgs,
          proposalHash \in ProposalHashInputs,
          expirationTime \in ExpirationInputs,
          jurisdiction \in Jurisdictions :
        LET c1 == <<args[1], args[3]>>
            c2 == <<args[2], args[4]>>
            res == CreateMarriageProposalResult(proposalId, c1[1], c2[1],
                                                c1[2], c2[2])
        IN  /\ last' = Call("createMarriageProposal", proposalId, c1[1],
                            c2[1], <<c1[2], c2[2]>>, Alice, res)
            /\ IF res = OK
               THEN /\ proposals' = [proposals EXCEPT ![proposalId] =
                          [proposerNullifier |-> c1[1],
                           proposeeNullifier |-> c2[1],
                           proposalHash |-> proposalHash,
                           timestamp |-> now,
                           expiresAt |-> expirationTime,
                           isAccepted |-> FALSE,
                           isExpired |-> FALSE,
                           jurisdiction |-> jurisdiction]]
                    /\ emitted' = <<<<"MarriageProposed", proposalId, c1[1],
                                     c2[1], jurisdiction>>>>
               ELSE /\ proposals' = proposals
                    /\ emitted' = <<>>
    /\ createdLog' = createdLog \cup CreatedIn(emitted')
    /\ UNCHANGED <<svcVars, registry, now, marriages, nullifierToMarriage,
                   usedNullifiers, zkPassportVerifier, mrVars>>

\* acceptMarriage without its "Already accepted" check
AcceptMarriageResult_NoAcceptedCheck(proposalId) ==
    IF proposals[proposalId].proposerNullifier = 0 THEN "ProposalNotFound"
    ELSE IF now > proposals[proposalId].expiresAt THEN "ProposalExpired"
    ELSE OK

\* acceptMarriage without its expiry check
AcceptMarriageResult_NoExpiryCheck(proposalId) ==
    IF proposals[proposalId].proposerNullifier = 0 THEN "ProposalNotFound"
    ELSE IF proposals[proposalId].isAccepted THEN "Already accepted"
    ELSE OK

\* the revert that acceptMarriage ends in, or OK
AcceptMarriageResult(proposalId) ==
    IF proposals[proposalId].proposerNullifier = 0 THEN "ProposalNotFound"
    ELSE IF now > proposals[proposalId].expiresAt THEN "ProposalExpired"
    ELSE IF proposals[proposalId].isAccepted THEN "Already accepted"
    ELSE OK

AcceptMarriage ==
    /\ registry = REAL
    /\ \E proposalId \in ProposalIds, certificateHash \in CertificateInputs :
        LET res == AcceptMarriageResult(proposalId)
            proposal == proposals[proposalId]
            marriageId == KeccakMarriageId(proposal.proposerNullifier,
                                           proposal.proposeeNullifier,
                                           now, proposal.jurisdiction)
        IN  /\ last' = Call("acceptMarriage", proposalId,
                            proposal.proposerNullifier,
                            proposal.proposeeNullifier, <<>>, Alice, res)
            /\ IF res = OK
               THEN /\ proposals' = [proposals EXCEPT
                                       ![proposalId].isAccepted = TRUE]
                    /\ marriages' = MarriagePut(marriageId,
                          [spouse1Nullifier |-> proposal.proposerNullifier,
                           spouse2Nullifier |-> proposal.proposeeNullifier,
                           proof1Hash |->
                               KeccakProofTag(proposal.proposerNullifier, 1),
                           proof2Hash |->
                               KeccakProofTag(proposal.proposeeNullifier, 2),
                           marriageDate |-> now,
                           isActive |-> TRUE,
                           jurisdiction |-> proposal.jurisdiction,
                           certificateHash |-> certificateHash])
                    /\ nullifierToMarriage' = [nullifierToMarriage EXCEPT
                          ![proposal.proposerNullifier] = marriageId,
                          ![proposal.proposeeNullifier] = marriageId]
                    /\ usedNullifiers' = [usedNullifiers EXCEPT
                          ![proposal.proposerNullifier] = TRUE,
                          ![proposal.proposeeNullifier] = TRUE]
                    /\ emitted' = <<<<"MarriageCreated", marriageId,
                                     proposal.proposerNullifier,
                                     proposal.proposeeNullifier,
                                     proposal.jurisdiction>>>>
               ELSE /\ UNCHANGED <<proposals, marriages, nullifierToMarriage,
                                   usedNullifiers>>
                    /\ emitted' = <<>>
    /\ createdLog' = createdLog \cup CreatedIn(emitted')
    /\ UNCHANGED <<svcVars, registry, now, zkPassportVerifier, mrVars>>

\* createMarriage without any of its four checks
CreateMarriageResult_Unchecked(spouse1Nullifier, spouse2Nullifier) == OK

\* createMarriage with the nullifierToMarriage checks ahead of the
\* usedNullifiers checks
CreateMarriageResult_MarriedFirst(spouse1Nullifier, spouse2Nullifier) ==
    IF nullifierToMarriage[spouse1Nullifier] # 0 THEN "AlreadyMarried"
    ELSE IF nullifierToMarriage[spouse2Nullifier] # 0 THEN "AlreadyMarried"
    ELSE IF usedNullifiers[spouse1Nullifier] THEN "NullifierAlreadyUsed"
    ELSE IF usedNullifiers[spouse2Nullifier] THEN "NullifierAlreadyUsed"
    ELSE OK

\* createMarriage without its two usedNullifiers checks
CreateMarriageResult_NoUsedCheck(spouse1Nullifier, spouse2Nullifier) ==
    IF nullifierToMarriage[spouse1Nullifier] # 0 THEN "AlreadyMarried"
    ELSE IF nullifierToMarriage[spouse2Nullifier] # 0 THEN "AlreadyMarried"
    ELSE OK

\* the revert that createMarriage ends in, or OK
CreateMarriageResult(spouse1Nullifier, spouse2Nullifier) ==
    IF usedNullifiers[spouse1Nullifier] THEN "NullifierAlreadyUsed"
    ELSE IF usedNullifiers[spouse2Nullifier] THEN "NullifierAlreadyUsed"
    ELSE IF nullifierToMarriage[spouse1Nullifier] # 0 THEN "AlreadyMarried"
    ELSE IF nullifierToMarriage[spouse2Nullifier] # 0 THEN "AlreadyMarried"
    ELSE OK

\* one createMarriage transaction sent by sender
CreateMarriageTx(marriageId, spouse1Nullifier, spouse2Nullifier, proof1Hash, proof2Hash, sender) ==
    LET res == CreateMarriageResult(spouse1Nullifier, spouse2Nullifier)
    IN  /\ last' = Call("createMarriage", marriageId, spouse1Nullifier,
                        spouse2Nullifier, <<>>, sender, res)
        /\ IF res = OK
           THEN /\ marriages' = MarriagePut(marriageId,
                      [spouse1Nullifier |-> spouse1Nullifier,
                       spouse2Nullifier |-> spouse2Nullifier,
                       proof1Hash |-> proof1Hash,
                       proof2Hash |-> proof2Hash,
                       marriageDate |-> now,
                       isActive |-> TRUE,
                       jurisdiction |-> "default",
                       certificateHash |->
                           KeccakCertificate(marriageId, now)])
                /\ nullifierToMarriage' =
                      [n \in Nullifiers |->
                         IF n \in {spouse1Nullifier, spouse2Nullifier}
                         THEN marriageId ELSE nullifierToMarriage[n]]
                /\ usedNullifiers' =
                      [n \in Nullifiers |->
                         IF n \in {spouse1Nullifier, spouse2Nullifier}
                         THEN TRUE ELSE usedNullifiers[n]]
                /\ emitted' = <<<<"MarriageCreated", marriageId,
                                 spouse1Nullifier, spouse2Nullifier,
                                 "default">>>>
           ELSE /\ UNCHANGED <<marriages, nullifierToMarriage,
                               usedNullifiers>>
                /\ emitted' = <<>>
        /\ createdLog' = createdLog \cup CreatedIn(emitted')
        /\ UNCHANGED <<registry, now, proposals, zkPassportVerifier, mrVars>>

CreateMarriage ==
    /\ registry = REAL
    /\ \E marriageId \in MarriageIdInputs, spouses \in SpouseArgs,
          proof1Hash \in ProofHashInputs, proof2Hash \in ProofHashInputs :
        CreateMarriageTx(marriageId, spouses[1], spouses[2], proof1Hash,
                         proof2Hash, Alice)
    /\ UNCHANGED svcVars

\* requestDivorce without its NotAuthorized check
RequestDivorceResult_NoSpouseCheck(marriageId, requesterNullifier) ==
    IF ~MarriageAt(marriageId).isActive THEN "MarriageNotActive" ELSE OK

\* requestDivorce without its check of isActive
RequestDivorceResult_NoActiveCheck(marriageId, requesterNullifier) ==
    IF /\ MarriageAt(marriageId).spouse1Nullifier # requesterNullifier
       /\ MarriageAt(marriageId).spouse2Nullifier # requesterNullifier
    THEN "NotAuthorized"
    ELSE OK

\* the revert that requestDivorce ends in, or OK
RequestDivorceResult(marriageId, requesterNullifier) ==
    IF ~MarriageAt(marriageId).isActive THEN "MarriageNotActive"
    ELSE IF /\ MarriageAt(marriageId).spouse1Nullifier # requesterNullifier
            /\ MarriageAt(marriageId).spouse2Nullifier # requesterNullifier
         THEN "NotAuthorized"
    ELSE OK

\* requestDivorce that also clears the consumed flags of the two spouses
RequestDivorce_FreesNullifiers ==
    /\ registry = REAL
    /\ \E marriageId \in (DOMAIN marriages) \cup MarriageIdInputs,
          requesterNullifier \in Nullifiers \ {0} :
        LET res == RequestDivorceResult(marriageId, requesterNullifier)
            marriage == MarriageAt(marriageId)
        IN  /\ last' = Call("requestDivorce", marriageId, requesterNullifier,
                            0, <<>>, Alice, res)
            /\ IF res = OK
               THEN /\ marriages' = MarriagePut(marriageId,
                          [marriage EXCEPT !.isActive = FALSE])
                    /\ nullifierToMarriage' =
                          [n \in Nullifiers |->
                             IF n \in {marriage.spouse1Nullifier,
                                       marriage.spouse2Nullifier}
                             THEN 0 ELSE nullifierToMarriage[n]]
                    /\ usedNullifiers' =
                          [n \in Nullifiers |->
                             IF n \in {marriage.spouse1Nullifier,
                                       marriage.spouse2Nullifier}
                             THEN FALSE ELSE usedNullifiers[n]]
                    /\ emitted' = DivorceEvents(marriageId,
                                                requesterNullifier)
               ELSE /\ UNCHANGED <<marriages, nullifierToMarriage,
                                   usedNullifiers>>
                    /\ emitted' = <<>>
    /\ createdLog' = createdLog \cup CreatedIn(emitted')
    /\ UNCHANGED <<svcVars, registry, now, proposals, zkPassportVerifier,
                   mrVars>>

RequestDivorce ==
    /\ registry = REAL
    /\ \E marriageId \in (DOMAIN marriages) \cup MarriageIdInputs,
          requesterNullifier \in Nullifiers \ {0} :
        LET res == RequestDivorceResult(marriageId, requesterNullifier)
            marriage == MarriageAt(marriageId)
        IN  /\ last' = Call("requestDivorce", marriageId, requesterNullifier,
                            0, <<>>, Alice, res)
            /\ IF res = OK
               THEN /\ marriages' = MarriagePut(marriageId,
                          [marriage EXCEPT !.isActive = FALSE])
                    /\ nullifierToMarriage' =
                          [n \in Nullifiers |->
                             IF n \in {marriage.spouse1Nullifier,
                                       marriage.spouse2Nullifier}
                             THEN 0 ELSE nullifierToMarriage[n]]
                    /\ emitted' = DivorceEvents(marriageId,
                                                requesterNullifier)
               ELSE /\ UNCHANGED <<marriages, nullifierToMarriage>>
                    /\ emitted' = <<>>
    /\ createdLog' = createdLog \cup CreatedIn(emitted')
    /\ UNCHANGED <<svcVars, registry, now, proposals, usedNullifiers,
                   zkPassportVerifier, mrVars>>

\* onlyOwner
UpdateZKPassportVerifierResult(sender) ==
    IF sender # Owner THEN "OwnableUnauthorizedAccount" ELSE OK

UpdateZKPassportVerifier ==
    /\ registry = REAL
    /\ \E sender \in {Owner, Alice}, newVerifier \in VerifierInputs :
        LET res == UpdateZKPassportVerifierResult(sender)
        IN  /\ last' = Call("updateZKPassportVerifier", newVerifier, 0, 0,
                            <<>>, sender, res)
            /\ IF res = OK
               THEN /\ zkPassportVerifier' = newVerifier
                    /\ emitted' = <<<<"ZKPassportVerifierUpdated",
                                     newVerifier>>>>
               ELSE /\ zkPassportVerifier' = zkPassportVerifier
                    /\ emitted' = <<>>
    /\ createdLog' = createdLog \cup CreatedIn(emitted')
    /\ UNCHANGED <<svcVars, registry, now, marriages, proposals, nullifierToMarriage,
                   usedNullifiers, mrVars>>

\* getMarriageStatusByNullifier with marriageDate left at its default
GetMarriageStatusByNullifier_NoDate(nullifier) ==
    LET marriageId == nullifierToMarriage[nullifier]
    IN  IF marriageId # 0
        THEN <<MarriageAt(marriageId).isActive, marriageId, 0>>
        ELSE <<FALSE, 0, 0>>

\* view: (isMarried, marriageId, marriageDate)
GetMarriageStatusByNullifier(nullifier) ==
    LET marriageId == nullifierToMarriage[nullifier]
    IN  IF marriageId # 0
        THEN <<MarriageAt(marriageId).isActive, marriageId,
               MarriageAt(marriageId).marriageDate>>
        ELSE <<FALSE, 0, 0>>

\* view: (spouse1Nullifier, spouse2Nullifier, marriageDate, isActive,
\* jurisdiction)
GetMarriage(marriageId) ==
    <<MarriageAt(marriageId).spouse1Nullifier,
      MarriageAt(marriageId).spouse2Nullifier,
      MarriageAt(marriageId).marriageDate,
      MarriageAt(marriageId).isActive,
      MarriageAt(marriageId).jurisdiction>>

\* verifyMarriageCertificate without its spouse check
VerifyMarriageCertificate_NoSpouseCheck(marriageId, certificateHash, requesterNullifier) ==
    IF ~MarriageAt(marriageId).isActive THEN FALSE
    ELSE MarriageAt(marriageId).certificateHash = certificateHash

\* view: isValid
VerifyMarriageCertificate(marriageId, certificateHash, requesterNullifier) ==
    IF ~MarriageAt(marriageId).isActive THEN FALSE
    ELSE IF /\ MarriageAt(marriageId).spouse1Nullifier # requesterNullifier
            /\ MarriageAt(marriageId).spouse2Nullifier # requesterNullifier
         THEN FALSE
    ELSE MarriageAt(marriageId).certificateHash = certificateHash

(***************************************************************************)
(* keccak256 at its call sites in MarriageRegistry, and the inputs offered *)
(* to it.                                                                  *)
(***************************************************************************)
\* bytes32(uint256(uint160(addr))): the address, zero-extended
AddressHash(addr) == addr

\* keccak256(abi.encodePacked(user)) of a 20-byte address
KeccakAddress(user) == 10 + user

\* keccak256(abi.encodePacked(x, y)) of two bytes32 words
KeccakPair(x, y) == 100 + ((x + y) * (x + y + 1)) \div 2 + y

\* keccak256(abi.encodePacked(proposer, proposee, block.timestamp))
KeccakMrMarriageId(p, q, t) == 1 + t + 16 * (q + 16 * p)

\* the passport tree of the deployment: leaves of Alice and Bob paired,
\* Charlie's leaf paired with bytes32(0) (src/test/MarriageRegistry.t.sol)
SortedPair(x, y) == IF x <= y THEN KeccakPair(x, y) ELSE KeccakPair(y, x)
Node1 == SortedPair(KeccakAddress(Alice), KeccakAddress(Bob))
Node2 == SortedPair(KeccakAddress(Charlie), 0)
Root0 == SortedPair(Node1, Node2)
\* a single-leaf tree that holds Charlie alone
Root1 == KeccakAddress(Charlie)
RootInputs == {Root1}

MerkleProofOf(user) ==
    IF user = Alice THEN <<KeccakAddress(Bob), Node2>>
    ELSE IF user = Bob THEN <<KeccakAddress(Alice), Node2>>
    ELSE <<0, Node1>>

\* the proofs a user presents: the path of its leaf in the first tree, or
\* an empty path
MerkleProofInputs(user) == {MerkleProofOf(user), <<>>}

\* the (msg.sender, proposee) arguments offered to proposeMarriage
ProposeArgs == {<<Alice, AddressHash(Bob)>>, <<Alice, AddressHash(Charlie)>>,
                <<Alice, AddressHash(Alice)>>, <<Charlie, AddressHash(Alice)>>}
NonceInputs == {1}

\* the proposal ids in play are fixed by the initial state
MrProposalIds == DOMAIN mrProposals
PersonHashes == {0} \cup {AddressHash(u) : u \in Users}

ZeroMrMarriage ==
    [spouse1Hash |-> 0, spouse2Hash |-> 0, marriageDate |-> 0,
     isActive |-> FALSE, merkleRoot |-> 0]

ZeroMrProposal ==
    [proposer |-> 0, proposee |-> 0, timestamp |-> 0, nonce |-> 0,
     isAccepted |-> FALSE, isExpired |-> FALSE]

MrMarriageAt(m) ==
    IF m \in DOMAIN mrMarriages THEN mrMarriages[m] ELSE ZeroMrMarriage

MrMarriagePut(m, rec) == [x \in (DOMAIN mrMarriages) \cup {m} |->
                            IF x = m THEN rec ELSE mrMarriages[x]]

StoredMrProposalIds == {i \in MrProposalIds : mrProposals[i].proposer # 0}
MrProposalIdInputs ==
    {i \in MrProposalIds : \A k \in 1..(i - 1) : k \in StoredMrProposalIds}

(***************************************************************************)
(* MarriageRegistry                                                        *)
(***************************************************************************)
RECURSIVE MerkleFold_Unsorted(_, _)
\* the loop of verifyMerkleProof with the accumulator always hashed first
MerkleFold_Unsorted(computedHash, proof) ==
    IF proof = <<>> THEN computedHash
    ELSE MerkleFold_Unsorted(KeccakPair(computedHash, Head(proof)),
                             Tail(proof))

RECURSIVE MerkleFold(_, _)
\* the loop of verifyMerkleProof: computedHash after consuming proof
MerkleFold(computedHash, proof) ==
    IF proof = <<>> THEN computedHash
    ELSE MerkleFold(IF computedHash <= Head(proof)
                    THEN KeccakPair(computedHash, Head(proof))
                    ELSE KeccakPair(Head(proof), computedHash),
                    Tail(proof))

\* verifyMerkleProof that rejects the empty proof
VerifyMerkleProof_EmptyProofFails(proof, root, leaf) ==
    proof # <<>> /\ MerkleFold(leaf, proof) = root

VerifyMerkleProof(proof, root, leaf) == MerkleFold(leaf, proof) = root

VerifyZKPassport(user, merkleProof) ==
    VerifyMerkleProof(merkleProof, zkPassportMerkleRoot, KeccakAddress(user))

GenerateMarriageMerkleRoot(spouse1, spouse2) == KeccakPair(spouse1, spouse2)

\* proposeMarriage without its "Proposal already exists" require
ProposeMarriageResult_NoDuplicateCheck(sender, proposalId, merkleProof) ==
    IF ~VerifyZKPassport(sender, merkleProof) THEN "Invalid zkPassport proof"
    ELSE IF personToMarriage[AddressHash(sender)] # 0 THEN "Already married"
    ELSE OK

\* the require that proposeMarriage fails, or OK
ProposeMarriageResult(sender, proposalId, merkleProof) ==
    IF mrProposals[proposalId].proposer # 0 THEN "Proposal already exists"
    ELSE IF ~VerifyZKPassport(sender, merkleProof)
         THEN "Invalid zkPassport proof"
    ELSE IF personToMarriage[AddressHash(sender)] # 0 THEN "Already married"
    ELSE OK

ProposeMarriage ==
    /\ registry = SIMPLE
    /\ \E args \in ProposeArgs, proposalId \in MrProposalIdInputs,
          nonce \in NonceInputs :
       \E merkleProof \in MerkleProofInputs(args[1]) :
        LET sender == args[1]
            proposee == args[2]
            res == ProposeMarriageResult(sender, proposalId, merkleProof)
        IN  /\ last' = Call("proposeMarriage", proposalId,
                            AddressHash(sender), proposee, merkleProof,
                            sender, res)
            /\ IF res = OK
               THEN /\ mrProposals' = [mrProposals EXCEPT ![proposalId] =
                          [proposer |-> AddressHash(sender),
                           proposee |-> proposee,
                           timestamp |-> now,
                           nonce |-> nonce,
                           isAccepted |-> FALSE,
                           isExpired |-> FALSE]]
                    /\ emitted' = <<<<"MarriageProposed", proposalId,
                                     AddressHash(sender), proposee>>>>
               ELSE /\ mrProposals' = mrProposals
                    /\ emitted' = <<>>
    /\ createdLog' = createdLog \cup CreatedIn(emitted')
    /\ UNCHANGED <<svcVars, registry, now, realVars, mrMarriages, personToMarriage,
                   zkPassportMerkleRoot>>

\* acceptMarriage without its "Not the proposee" require
MrAcceptMarriageResult_NoProposeeCheck(sender, proposalId, merkleProof) ==
    IF mrProposals[proposalId].isAccepted THEN "Already accepted"
    ELSE IF mrProposals[proposalId].isExpired THEN "Proposal expired"
    ELSE IF ~VerifyZKPassport(sender, merkleProof)
         THEN "Invalid zkPassport proof"
    ELSE IF personToMarriage[AddressHash(sender)] # 0 THEN "Already married"
    ELSE OK

\* acceptMarriage that takes a proposal of an earlier block for expired
MrAcceptMarriageResult_ExpiresNextBlock(sender, proposalId, merkleProof) ==
    IF mrProposals[proposalId].proposee # AddressHash(sender)
    THEN "Not the proposee"
    ELSE IF mrProposals[proposalId].isAccepted THEN "Already accepted"
    ELSE IF \/ mrProposals[proposalId].isExpired
            \/ now > mrProposals[proposalId].timestamp
         THEN "Proposal expired"
    ELSE IF ~VerifyZKPassport(sender, merkleProof)
         THEN "Invalid zkPassport proof"
    ELSE IF personToMarriage[AddressHash(sender)] # 0 THEN "Already married"
    ELSE OK

\* the require that acceptMarriage fails, or OK
MrAcceptMarriageResult(sender, proposalId, merkleProof) ==
    IF mrProposals[proposalId].proposee # AddressHash(sender)
    THEN "Not the proposee"
    ELSE IF mrProposals[proposalId].isAccepted THEN "Already accepted"
    ELSE IF mrProposals[proposalId].isExpired THEN "Proposal expired"
    ELSE IF ~VerifyZKPassport(sender, merkleProof)
         THEN "Invalid zkPassport proof"
    ELSE IF personToMarriage[AddressHash(sender)] # 0 THEN "Already married"
    ELSE OK

MrAcceptMarriage ==
    /\ registry = SIMPLE
    /\ \E sender \in Users, proposalId \in MrProposalIds :
       \E merkleProof \in MerkleProofInputs(sender) :
        LET res == MrAcceptMarriageResult(sender, proposalId, merkleProof)
            proposal == mrProposals[proposalId]
            marriageId == KeccakMrMarriageId(proposal.proposer,
                                             proposal.proposee, now)
        IN  /\ last' = Call("acceptMarriage", proposalId, proposal.proposer,
                            proposal.proposee, merkleProof, sender, res)
            /\ IF res = OK
               THEN /\ mrMarriages' = MrMarriagePut(marriageId,
                          [spouse1Hash |-> proposal.proposer,
                           spouse2Hash |-> proposal.proposee,
                           marriageDate |-> now,
                           isActive |-> TRUE,
                           merkleRoot |-> GenerateMarriageMerkleRoot(
                               proposal.proposer, proposal.proposee)])
                    /\ personToMarriage' = [personToMarriage EXCEPT
                          ![proposal.proposer] = marriageId,
                          ![proposal.proposee] = marriageId]
                    /\ mrProposals' = [mrProposals EXCEPT
                                         ![proposalId].isAccepted = TRUE]
                    /\ emitted' = <<<<"MarriageCreated", marriageId,
                                     proposal.proposer, proposal.proposee>>>>
               ELSE /\ UNCHANGED <<mrMarriages, personToMarriage,
                                   mrProposals>>
                    /\ emitted' = <<>>
    /\ createdLog' = createdLog \cup CreatedIn(emitted')
    /\ UNCHANGED <<svcVars, registry, now, realVars, zkPassportMerkleRoot>>

\* the require that requestDivorce fails, or OK
MrRequestDivorceResult(sender, marriageId, merkleProof) ==
    IF ~MrMarriageAt(marriageId).isActive THEN "Marriage not active"
    ELSE IF /\ MrMarriageAt(marriageId).spouse1Hash # AddressHash(sender)
            /\ MrMarriageAt(marriageId).spouse2Hash # AddressHash(sender)
         THEN "Not a spouse in this marriage"
    ELSE IF ~VerifyZKPassport(sender, merkleProof)
         THEN "Invalid zkPassport proof"
    ELSE OK

\* requestDivorce that clears the index entry of spouse1 only
MrRequestDivorce_KeepsSpouse2 ==
    /\ registry = SIMPLE
    /\ \E sender \in Users,
          marriageId \in (DOMAIN mrMarriages) \cup {0} :
       \E merkleProof \in MerkleProofInputs(sender) :
        LET res == MrRequestDivorceResult(sender, marriageId, merkleProof)
            marriage == MrMarriageAt(marriageId)
        IN  /\ last' = Call("requestDivorce", marriageId,
                            AddressHash(sender), 0, merkleProof, sender,
                            res)
            /\ IF res = OK
               THEN /\ mrMarriages' = MrMarriagePut(marriageId,
                          [marriage EXCEPT !.isActive = FALSE])
                    /\ personToMarriage' =
                          [h \in PersonHashes |->
                             IF h = marriage.spouse1Hash
                             THEN 0 ELSE personToMarriage[h]]
                    /\ emitted' = DivorceEvents(marriageId,
                                                AddressHash(sender))
               ELSE /\ UNCHANGED <<mrMarriages, personToMarriage>>
                    /\ emitted' = <<>>
    /\ createdLog' = createdLog \cup CreatedIn(emitted')
    /\ UNCHANGED <<svcVars, registry, now, realVars, mrProposals,
                   zkPassportMerkleRoot>>

MrRequestDivorce ==
    /\ registry = SIMPLE
    /\ \E sender \in Users,
          marriageId \in (DOMAIN mrMarriages) \cup {0} :
       \E merkleProof \in MerkleProofInputs(sender) :
        LET res == MrRequestDivorceResult(sender, marriageId, merkleProof)
            marriage == MrMarriageAt(marriageId)
        IN  /\ last' = Call("requestDivorce", marriageId,
                            AddressHash(sender), 0, merkleProof, sender,
                            res)
            /\ IF res = OK
               THEN /\ mrMarriages' = MrMarriagePut(marriageId,
                          [marriage EXCEPT !.isActive = FALSE])
                    /\ personToMarriage' =
                          [h \in PersonHashes |->
                             IF h \in {marriage.spouse1Hash,
                                       marriage.spouse2Hash}
                             THEN 0 ELSE personToMarriage[h]]
                    /\ emitted' = DivorceEvents(marriageId,
                                                AddressHash(sender))
               ELSE /\ UNCHANGED <<mrMarriages, personToMarriage>>
                    /\ emitted' = <<>>
    /\ createdLog' = createdLog \cup CreatedIn(emitted')
    /\ UNCHANGED <<svcVars, registry, now, realVars, mrProposals,
                   zkPassportMerkleRoot>>

\* updateZKPassportMerkleRoot without onlyOwner
UpdateZKPassportMerkleRootResult_NoOwnerCheck(sender) == OK

\* onlyOwner
UpdateZKPassportMerkleRootResult(sender) ==
    IF sender # Owner THEN "OwnableUnauthorizedAccount" ELSE OK

UpdateZKPassportMerkleRoot ==
    /\ registry = SIMPLE
    /\ \E sender \in {Owner, Alice}, newRoot \in RootInputs :
        LET res == UpdateZKPassportMerkleRootResult(sender)
        IN  /\ last' = Call("updateZKPassportMerkleRoot", newRoot, 0, 0,
                            <<>>, sender, res)
            /\ zkPassportMerkleRoot' =
                  IF res = OK THEN newRoot ELSE zkPassportMerkleRoot
            /\ emitted' = <<>>
    /\ createdLog' = createdLog \cup CreatedIn(emitted')
    /\ UNCHANGED <<svcVars, registry, now, realVars, mrMarriages, mrProposals,
                   personToMarriage>>

\* view: (isMarried, marriageId)
GetMarriageStatus(user) ==
    LET userHash == AddressHash(user)
        marriageId == personToMarriage[userHash]
    IN  <<marriageId # 0 /\ MrMarriageAt(marriageId).isActive, marriageId>>

\* the leaves, paths and roots offered to verifyMerkleProof: a leaf or
\* bytes32(0), then a first sibling from the leaf level and a second one
\* from the level above
LeafInputs == {KeccakAddress(u) : u \in Users} \cup {0}
FirstSiblingInputs == {KeccakAddress(u) : u \in Users} \cup {0}
SecondSiblingInputs == {Node1, Node2, 0}
MerklePathInputs ==
    {<<>>} \cup {<<x>> : x \in FirstSiblingInputs}
           \cup {<<x, y>> : x \in FirstSiblingInputs,
                            y \in SecondSiblingInputs}
MerkleRootInputs == {Root0, Root1, Node1, Node2}

\* the bool a Solidity function returns, as the outcome of a call
BoolResult(b) == IF b THEN "true" ELSE "false"

\* the read operations of RealMarriageRegistry, called by anyone
GetMarriageStatusByNullifierCall ==
    /\ registry = REAL
    /\ \E nullifier \in Nullifiers \ {0} :
         last' = Call("getMarriageStatusByNullifier", 0, nullifier, 0, <<>>,
                      Alice, GetMarriageStatusByNullifier(nullifier))
    /\ emitted' = <<>>
    /\ UNCHANGED <<svcVars, registry, now, realVars, mrVars, createdLog>>

GetMarriageCall ==
    /\ registry = REAL
    /\ \E marriageId \in (DOMAIN marriages) \cup MarriageIdInputs :
         last' = Call("getMarriage", marriageId, 0, 0, <<>>, Alice,
                      GetMarriage(marriageId))
    /\ emitted' = <<>>
    /\ UNCHANGED <<svcVars, registry, now, realVars, mrVars, createdLog>>

VerifyMarriageCertificateCall ==
    /\ registry = REAL
    /\ \E marriageId \in (DOMAIN marriages) \cup MarriageIdInputs,
          certificateHash \in CertificateInputs,
          requesterNullifier \in Nullifiers \ {0} :
         last' = Call("verifyMarriageCertificate", marriageId,
                      requesterNullifier, certificateHash, <<>>, Alice,
                      BoolResult(VerifyMarriageCertificate(
                          marriageId, certificateHash, requesterNullifier)))
    /\ emitted' = <<>>
    /\ UNCHANGED <<svcVars, registry, now, realVars, mrVars, createdLog>>

\* the read operation of MarriageRegistry
GetMarriageStatusCall ==
    /\ registry = SIMPLE
    /\ \E user \in Users :
         last' = Call("getMarriageStatus", 0, AddressHash(user), 0, <<>>,
                      user, GetMarriageStatus(user))
    /\ emitted' = <<>>
    /\ UNCHANGED <<svcVars, registry, now, realVars, mrVars, createdLog>>

\* verifyMerkleProof applied to arguments of the caller's choice
VerifyMerkleProofCall ==
    /\ registry = SIMPLE
    /\ \E proof \in MerklePathInputs, root \in MerkleRootInputs,
          leaf \in LeafInputs :
        last' = Call("verifyMerkleProof", root, leaf, 0, proof, 0,
                     BoolResult(VerifyMerkleProof(proof, root, leaf)))
    /\ emitted' = <<>>
    /\ createdLog' = createdLog \cup CreatedIn(emitted')
    /\ UNCHANGED <<svcVars, registry, now, realVars, mrVars>>

\* a later block
Tick ==
    /\ now < MaxTime
    /\ now' = now + 1
    /\ UNCHANGED <<registry, realVars, mrVars, last, emitted, createdLog,
                   svcVars>>

(***************************************************************************)
(* RealMarriageService and RealZKPassportService: the off-chain client of  *)
(* RealMarriageRegistry.  An async call runs from one await to the next in *)
(* one step; calls in flight interleave at their awaits.                   *)
(***************************************************************************)
MaxCalls == 2         \* async calls in flight at once
MaxDate == 2          \* Date.now() ranges over 0..MaxDate
MaxSvcProposals == 1  \* proposals with pending verifications at once

\* the lifetime of a verification request, in units of the host clock
VerificationLifetime == 1

\* the account of config.signer
Signer == 8

Roles == {"proposer", "proposee"}

\* `${proposalId}-${role}`
VerificationKey(proposalId, role) == <<proposalId, role>>

\* keccak256(solidityPacked([proposerId, proposeeId, Date.now()]))
KeccakRequest(proposerId, proposeeId, t) == 1 + t + 4 * (proposeeId + 4 * proposerId)

\* keccak256(solidityPacked([proposalId, nullifier1, nullifier2, Date.now()]))
KeccakExecution(proposalId, n1, n2, t) == 1 + t + 4 * (n2 + 256 * (n1 + 256 * proposalId))

\* keccak256(toUtf8Bytes(JSON.stringify(proofData)))
KeccakProofData(proofData) ==
    1000 + 8 * proofData.uniqueIdentifier
         + (IF proofData.verified THEN 4 ELSE 0)
         + (IF proofData.ageResult THEN 2 ELSE 0)
         + (IF proofData.documentEq THEN 1 ELSE 0)

\* keccak256(solidityPacked([proofHash, 'marriaged']))
KeccakMarriaged(proofHash) == 2 * proofHash + 2

\* the (proposerId, proposeeId) of the requests offered
RequestInputs == {<<1, 2>>}

\* every proposalId a caller can know of
SvcProposalIdInputs ==
    {KeccakRequest(r[1], r[2], t) : r \in RequestInputs, t \in 0..MaxDate}

\* what zkPassport reports of a proof: whether proofs and queryResult are
\* there, whether the SDK verifies them, the age constraint and its
\* outcome, the disclosed nationality, the document_type outcome and the
\* unique identifier
ProofData(complete, verified, ageExpected, ageResult, nationality, documentEq, uniqueIdentifier) ==
    [complete |-> complete, verified |-> verified,
     ageExpected |-> ageExpected, ageResult |-> ageResult,
     nationality |-> nationality, documentEq |-> documentEq,
     uniqueIdentifier |-> uniqueIdentifier]

\* the proof data offered for a role: the proposer's own or one the SDK
\* rejects, the proposee's own or the proposer's
ProofDataInputs(role) ==
    IF role = "proposer"
    THEN {ProofData(TRUE, TRUE, 18, TRUE, "USA", TRUE, N1),
          ProofData(TRUE, FALSE, 18, TRUE, "USA", TRUE, N1)}
    ELSE {ProofData(TRUE, TRUE, 18, TRUE, "USA", TRUE, N2),
          ProofData(TRUE, TRUE, 18, TRUE, "USA", TRUE, N1)}

\* no proof data: undefined
NoProofData == ProofData(FALSE, FALSE, 0, FALSE, "", FALSE, 0)

\* { isValid: false }: the other fields undefined, which reads as falsy
InvalidProof ==
    [isValid |-> FALSE, nationality |-> "", ageOver18 |-> FALSE,
     ageOver21 |-> FALSE, documentValid |-> FALSE,
     proofData |-> NoProofData, nullifier |-> 0]

\* RealZKPassportService.verifyProof
VerifyProof(proofData) ==
    IF ~proofData.complete THEN InvalidProof
    ELSE IF ~proofData.verified THEN InvalidProof
    ELSE [isValid |-> TRUE,
          nationality |-> proofData.nationality,
          ageOver18 |-> proofData.ageResult,
          ageOver21 |-> proofData.ageExpected >= 21 /\ proofData.ageResult,
          documentValid |-> proofData.documentEq,
          proofData |-> proofData,
          nullifier |-> IF proofData.uniqueIdentifier # 0
                        THEN proofData.uniqueIdentifier
                        ELSE KeccakMarriaged(KeccakProofData(proofData))]

\* config.jurisdiction as the service is constructed
ServiceJurisdiction == [minAge |-> 18, allowedCountries |-> {}]

\* canMarry without its duplicate-person check
CanMarry_NoSelfCheck(proof1, proof2, jurisdiction) ==
    IF ~proof1.isValid \/ ~proof2.isValid
    THEN <<"Invalid zkPassport proof">>
    ELSE (IF jurisdiction.minAge >= 21
          THEN IF ~proof1.ageOver21 \/ ~proof2.ageOver21
               THEN <<"Both parties must be over 21 years old">> ELSE <<>>
          ELSE IF jurisdiction.minAge >= 18
          THEN IF ~proof1.ageOver18 \/ ~proof2.ageOver18
               THEN <<"Both parties must be over 18 years old">> ELSE <<>>
          ELSE <<>>)
      \o (IF jurisdiction.allowedCountries # {}
          THEN (IF \/ proof1.nationality = ""
                   \/ proof1.nationality \notin jurisdiction.allowedCountries
                THEN <<"First party nationality not allowed in this jurisdiction">>
                ELSE <<>>)
            \o (IF \/ proof2.nationality = ""
                   \/ proof2.nationality \notin jurisdiction.allowedCountries
                THEN <<"Second party nationality not allowed in this jurisdiction">>
                ELSE <<>>)
          ELSE <<>>)
      \o (IF ~proof1.documentValid \/ ~proof2.documentValid
          THEN <<"Invalid or expired identity documents">> ELSE <<>>)

\* RealZKPassportService.canMarry: the reasons; canMarry is reasons = <<>>
CanMarry(proof1, proof2, jurisdiction) ==
    IF ~proof1.isValid \/ ~proof2.isValid
    THEN <<"Invalid zkPassport proof">>
    ELSE (IF jurisdiction.minAge >= 21
          THEN IF ~proof1.ageOver21 \/ ~proof2.ageOver21
               THEN <<"Both parties must be over 21 years old">> ELSE <<>>
          ELSE IF jurisdiction.minAge >= 18
          THEN IF ~proof1.ageOver18 \/ ~proof2.ageOver18
               THEN <<"Both parties must be over 18 years old">> ELSE <<>>
          ELSE <<>>)
      \o (IF jurisdiction.allowedCountries # {}
          THEN (IF \/ proof1.nationality = ""
                   \/ proof1.nationality \notin jurisdiction.allowedCountries
                THEN <<"First party nationality not allowed in this jurisdiction">>
                ELSE <<>>)
            \o (IF \/ proof2.nationality = ""
                   \/ proof2.nationality \notin jurisdiction.allowedCountries
                THEN <<"Second party nationality not allowed in this jurisdiction">>
                ELSE <<>>)
          ELSE <<>>)
      \o (IF ~proof1.documentValid \/ ~proof2.documentValid
          THEN <<"Invalid or expired identity documents">> ELSE <<>>)
      \o (IF proof1.nullifier = proof2.nullifier
          THEN <<"Cannot marry yourself">> ELSE <<>>)

\* what canMarry resolves to: { canMarry, reasons }
CanMarryReturn(proof1, proof2, jurisdiction) ==
    IF ~proof1.isValid \/ ~proof2.isValid
    THEN [canMarry |-> FALSE, reasons |-> <<"Invalid zkPassport proof">>]
    ELSE LET reasons == CanMarry(proof1, proof2, jurisdiction)
         IN  [canMarry |-> Len(reasons) = 0, reasons |-> reasons]

\* ZKPassportProofResult values a caller can hand to canMarry; an absent
\* nationality is ""
ProofResultInputs ==
    [isValid : BOOLEAN, nationality : {"", "USA", "FRA"},
     ageOver18 : BOOLEAN, ageOver21 : BOOLEAN, documentValid : BOOLEAN,
     proofData : {NoProofData}, nullifier : {N1, N2}]

\* jurisdictions a caller can hand to canMarry: below, at and between the
\* two age thresholds, with and without a list of countries
JurisdictionInputs ==
    [minAge : {0, 18, 20, 21}, allowedCountries : {{}, {"USA"}}]

\* Map.has, Map.set and Map.delete
MapHas(map, key) == key \in DOMAIN map
MapSet(map, key, value) == [k \in (DOMAIN map) \cup {key} |-> IF k = key THEN value ELSE map[k]]
MapDelete_KeepsAll(map, keys) == map
MapDelete(map, keys) == [k \in (DOMAIN map) \ keys |-> map[k]]

\* a call in flight: the function, the await it is at, its arguments and
\* its locals
Frame(fn, pc, proposalId, role, proofData) ==
    [fn |-> fn, pc |-> pc, proposalId |-> proposalId, role |-> role,
     proofData |-> proofData, proposerProof |-> InvalidProof,
     proposeeProof |-> InvalidProof, marriageId |-> 0]

\* the calls in flight: a bag, since two calls can be at the same await
\* with the same arguments and locals
InFlight == BagToSet(calls)

\* the calls in flight once call has returned
Finish(call) == calls (-) SetToBag({call})

\* the calls in flight once call has gone on to its next await
Continue(call, next) == Finish(call) (+) SetToBag({next})

\* what a step of a call hands back to the caller: a thrown error, or the
\* fields of the object it returns
Returned(fn, threw, isValid, canProceed, errors, success, error) ==
    [fn |-> fn, threw |-> threw, isValid |-> isValid,
     canProceed |-> canProceed, errors |-> errors, success |-> success,
     error |-> error]

\* a step that ends at an await hands back nothing
NoReturn == Returned("", "", FALSE, FALSE, <<>>, FALSE, "")

\* a call of canMarry with arguments of the caller's choice
CanMarryInputs ==
    {[fn |-> "canMarry", pc |-> "called", proof1 |-> proof1,
      proof2 |-> proof2, jurisdiction |-> jurisdiction] :
       proof1 \in ProofResultInputs, proof2 \in ProofResultInputs,
       jurisdiction \in JurisdictionInputs}

\* canMarry runs, from its call to its return
CanMarryCall ==
    /\ \E call \in InFlight :
         /\ call.fn = "canMarry"
         /\ calls' = Finish(call)
         /\ svcLast' = [fn |-> "canMarry", proof1 |-> call.proof1,
                        proof2 |-> call.proof2,
                        jurisdiction |-> call.jurisdiction,
                        returned |-> CanMarryReturn(call.proof1, call.proof2,
                                                    call.jurisdiction)]
    /\ UNCHANGED <<date, pendingVerifications, completedProofs>>
    /\ UNCHANGED <<registry, now, realVars, mrVars, last, emitted, createdLog>>

SubmitThrows(message) ==
    Returned("submitZKPassportProof", message, FALSE, FALSE, <<>>, FALSE, "")

SubmitReturns(isValid, canProceed, errors) ==
    Returned("submitZKPassportProof", "", isValid, canProceed, errors, FALSE,
             "")

ExecuteReturns(success, error, reasons) ==
    Returned("executeMarriage", "", FALSE, FALSE, reasons, success, error)

\* the proposals that have a pending verification
PendingProposalIds == {k[1] : k \in DOMAIN pendingVerifications}

\* createMarriageProposal: its awaits read and write nothing of the
\* service, the two pending verifications are set at its end
SvcCreateMarriageProposal ==
    /\ registry = REAL
    /\ \E request \in RequestInputs :
        LET proposalId == KeccakRequest(request[1], request[2], date)
            verification == [expiresAt |-> date + VerificationLifetime]
        IN  /\ \/ proposalId \in PendingProposalIds
               \/ Cardinality(PendingProposalIds) < MaxSvcProposals
            /\ pendingVerifications' =
                  MapSet(MapSet(pendingVerifications,
                                VerificationKey(proposalId, "proposer"),
                                verification),
                         VerificationKey(proposalId, "proposee"),
                         verification)
            /\ svcLast' = Returned("createMarriageProposal", "", FALSE, FALSE,
                                   <<>>, FALSE, "")
    /\ UNCHANGED <<registry, now, realVars, mrVars, last, emitted,
                   createdLog, date, completedProofs, calls>>

\* submitZKPassportProof without its expiry check
SubmitZKPassportProofResult_NoExpiryCheck(proposalId, role) ==
    IF ~MapHas(pendingVerifications, VerificationKey(proposalId, role))
    THEN "No pending verification found for this proposal"
    ELSE OK

\* the error submitZKPassportProof throws before its first await, or OK
SubmitZKPassportProofResult(proposalId, role) ==
    IF ~MapHas(pendingVerifications, VerificationKey(proposalId, role))
    THEN "No pending verification found for this proposal"
    ELSE IF date > pendingVerifications[VerificationKey(proposalId, role)].expiresAt
    THEN "Verification request has expired"
    ELSE OK

\* submitZKPassportProof up to await verifyProof
SubmitZKPassportProof ==
    /\ registry = REAL
    /\ BagCardinality(calls) < MaxCalls
    /\ \E proposalId \in SvcProposalIdInputs, role \in Roles :
       \E proofData \in ProofDataInputs(role) :
        LET res == SubmitZKPassportProofResult(proposalId, role)
        IN  IF res = OK
            THEN /\ calls' = calls (+) SetToBag({
                       Frame("submitZKPassportProof", "verifyProof",
                             proposalId, role, proofData)})
                 /\ svcLast' = NoReturn
            ELSE /\ calls' = calls
                 /\ svcLast' = SubmitThrows(res)
    /\ UNCHANGED <<registry, now, realVars, mrVars, last, emitted,
                   createdLog, date, pendingVerifications, completedProofs>>

\* submitZKPassportProof that looks for the two proofs before it records
\* its own
SubmitVerified_ReadsBeforeSet ==
    /\ registry = REAL
    /\ \E call \in InFlight :
        LET proofResult == VerifyProof(call.proofData)
            verificationKey == VerificationKey(call.proposalId, call.role)
            stored == MapSet(completedProofs, verificationKey, proofResult)
            proposerKey == VerificationKey(call.proposalId, "proposer")
            proposeeKey == VerificationKey(call.proposalId, "proposee")
        IN  /\ call.fn = "submitZKPassportProof"
            /\ call.pc = "verifyProof"
            /\ IF ~proofResult.isValid
               THEN /\ completedProofs' = completedProofs
                    /\ calls' = Finish(call)
                    /\ svcLast' = SubmitReturns(FALSE, FALSE,
                                      <<"Invalid zkPassport proof">>)
               ELSE /\ completedProofs' = stored
                    /\ IF /\ MapHas(completedProofs, proposerKey)
                          /\ MapHas(completedProofs, proposeeKey)
                       THEN /\ calls' = Continue(call,
                                  [call EXCEPT
                                     !.pc = "canMarry",
                                     !.proposerProof = stored[proposerKey],
                                     !.proposeeProof = stored[proposeeKey]])
                            /\ svcLast' = NoReturn
                       ELSE /\ calls' = Finish(call)
                            /\ svcLast' = SubmitReturns(TRUE, FALSE, <<>>)
    /\ UNCHANGED <<registry, now, realVars, mrVars, last, emitted,
                   createdLog, date, pendingVerifications>>

\* submitZKPassportProof from the result of verifyProof to await canMarry,
\* or to its return
SubmitVerified ==
    /\ registry = REAL
    /\ \E call \in InFlight :
        LET proofResult == VerifyProof(call.proofData)
            verificationKey == VerificationKey(call.proposalId, call.role)
            stored == MapSet(completedProofs, verificationKey, proofResult)
            proposerKey == VerificationKey(call.proposalId, "proposer")
            proposeeKey == VerificationKey(call.proposalId, "proposee")
        IN  /\ call.fn = "submitZKPassportProof"
            /\ call.pc = "verifyProof"
            /\ IF ~proofResult.isValid
               THEN /\ completedProofs' = completedProofs
                    /\ calls' = Finish(call)
                    /\ svcLast' = SubmitReturns(FALSE, FALSE,
                                      <<"Invalid zkPassport proof">>)
               ELSE /\ completedProofs' = stored
                    /\ IF MapHas(stored, proposerKey) /\ MapHas(stored, proposeeKey)
                       THEN /\ calls' = Continue(call,
                                  [call EXCEPT
                                     !.pc = "canMarry",
                                     !.proposerProof = stored[proposerKey],
                                     !.proposeeProof = stored[proposeeKey]])
                            /\ svcLast' = NoReturn
                       ELSE /\ calls' = Finish(call)
                            /\ svcLast' = SubmitReturns(TRUE, FALSE, <<>>)
    /\ UNCHANGED <<registry, now, realVars, mrVars, last, emitted,
                   createdLog, date, pendingVerifications>>

\* submitZKPassportProof from the result of canMarry to its return
SubmitCanMarry ==
    /\ registry = REAL
    /\ \E call \in InFlight :
        LET reasons == CanMarry(call.proposerProof, call.proposeeProof,
                                ServiceJurisdiction)
        IN  /\ call.fn = "submitZKPassportProof"
            /\ call.pc = "canMarry"
            /\ calls' = Finish(call)
            /\ svcLast' = SubmitReturns(TRUE, reasons = <<>>, reasons)
    /\ UNCHANGED <<registry, now, realVars, mrVars, last, emitted,
                   createdLog, date, pendingVerifications, completedProofs>>

\* executeMarriage from the proposer's proof alone
ExecuteMarriageResult_ProposerOnly(proposalId) ==
    IF ~MapHas(completedProofs, VerificationKey(proposalId, "proposer"))
    THEN "Both parties must complete zkPassport verification first"
    ELSE OK

\* the error executeMarriage returns before its first await, or OK
ExecuteMarriageResult(proposalId) ==
    IF \/ ~MapHas(completedProofs, VerificationKey(proposalId, "proposer"))
       \/ ~MapHas(completedProofs, VerificationKey(proposalId, "proposee"))
    THEN "Both parties must complete zkPassport verification first"
    ELSE OK

\* completedProofs.get(key), undefined read as a proof that is not valid
ProofGet(key) ==
    IF MapHas(completedProofs, key) THEN completedProofs[key]
    ELSE InvalidProof

\* executeMarriage up to await canMarry
ExecuteMarriage ==
    /\ registry = REAL
    /\ BagCardinality(calls) < MaxCalls
    /\ \E proposalId \in SvcProposalIdInputs :
        LET res == ExecuteMarriageResult(proposalId)
        IN  IF res = OK
            THEN /\ calls' = calls (+) SetToBag({
                       [Frame("executeMarriage", "canMarry", proposalId, "",
                              NoProofData)
                        EXCEPT
                          !.proposerProof = ProofGet(
                              VerificationKey(proposalId, "proposer")),
                          !.proposeeProof = ProofGet(
                              VerificationKey(proposalId, "proposee"))]})
                 /\ svcLast' = NoReturn
            ELSE /\ calls' = calls
                 /\ svcLast' = ExecuteReturns(FALSE, res, <<>>)
    /\ UNCHANGED <<registry, now, realVars, mrVars, last, emitted,
                   createdLog, date, pendingVerifications, completedProofs>>

\* executeMarriage from the result of canMarry to await
\* generateMarriageCertificateData
ExecuteCanMarry ==
    /\ registry = REAL
    /\ \E call \in InFlight :
        LET reasons == CanMarry(call.proposerProof, call.proposeeProof,
                                ServiceJurisdiction)
        IN  /\ call.fn = "executeMarriage"
            /\ call.pc = "canMarry"
            /\ IF reasons # <<>>
               THEN /\ calls' = Finish(call)
                    /\ svcLast' = ExecuteReturns(FALSE,
                                      "Marriage not allowed", reasons)
               ELSE /\ calls' = Continue(call,
                          [call EXCEPT
                             !.pc = "generateMarriageCertificateData",
                             !.marriageId =
                                 KeccakExecution(call.proposalId,
                                     call.proposerProof.nullifier,
                                     call.proposeeProof.nullifier, date)])
                    /\ svcLast' = NoReturn
    /\ UNCHANGED <<registry, now, realVars, mrVars, last, emitted,
                   createdLog, date, pendingVerifications, completedProofs>>

\* executeMarriage from the certificate data to await
\* contract.createMarriage
ExecuteCertificate ==
    /\ registry = REAL
    /\ \E call \in InFlight :
            /\ call.fn = "executeMarriage"
            /\ call.pc = "generateMarriageCertificateData"
            /\ IF ~call.proposerProof.isValid \/ ~call.proposeeProof.isValid
               THEN /\ calls' = Finish(call)
                    /\ svcLast' = ExecuteReturns(FALSE,
                                      "Failed to execute marriage on blockchain",
                                      <<"Both zkPassport proofs must be valid">>)
               ELSE /\ calls' = Continue(call,
                                     [call EXCEPT !.pc = "createMarriage"])
                    /\ svcLast' = NoReturn
    /\ UNCHANGED <<registry, now, realVars, mrVars, last, emitted,
                   createdLog, date, pendingVerifications, completedProofs>>

\* the createMarriage transaction of executeMarriage on the registry: a
\* revert is caught and returned, otherwise the call awaits tx.wait()
ExecuteCreateMarriage ==
    /\ registry = REAL
    /\ \E call \in InFlight :
            /\ call.fn = "executeMarriage"
            /\ call.pc = "createMarriage"
            /\ CreateMarriageTx(call.marriageId,
                                call.proposerProof.nullifier,
                                call.proposeeProof.nullifier,
                                KeccakProofData(call.proposerProof.proofData),
                                KeccakProofData(call.proposeeProof.proofData),
                                Signer)
            /\ IF last'.result = OK
               THEN /\ calls' = Continue(call, [call EXCEPT !.pc = "wait"])
                    /\ svcLast' = NoReturn
               ELSE /\ calls' = Finish(call)
                    /\ svcLast' = ExecuteReturns(FALSE,
                                      "Failed to execute marriage on blockchain",
                                      <<last'.result>>)
    /\ UNCHANGED <<date, pendingVerifications, completedProofs>>

\* executeMarriage from the receipt to its return: the clean-up
ExecuteWait ==
    /\ registry = REAL
    /\ \E call \in InFlight :
        LET keys == {VerificationKey(call.proposalId, role) : role \in Roles}
        IN  /\ call.fn = "executeMarriage"
            /\ call.pc = "wait"
            /\ pendingVerifications' = MapDelete(pendingVerifications, keys)
            /\ completedProofs' = MapDelete(completedProofs, keys)
            /\ calls' = Finish(call)
            /\ svcLast' = ExecuteReturns(TRUE, "", <<>>)
    /\ UNCHANGED <<registry, now, realVars, mrVars, last, emitted,
                   createdLog, date>>

\* the host clock advances
DateTick ==
    /\ registry = REAL
    /\ date < MaxDate
    /\ date' = date + 1
    /\ svcLast' = NoReturn
    /\ UNCHANGED <<registry, now, realVars, mrVars, last, emitted,
                   createdLog, pendingVerifications, completedProofs, calls>>

(***************************************************************************)
(* Specifications                                                          *)
(***************************************************************************)
InitChain(mrProposalIds) ==
    /\ now = 1
    /\ marriages = <<>>
    /\ proposals = [i \in ProposalIds |-> ZeroProposal]
    /\ nullifierToMarriage = [n \in Nullifiers |-> 0]
    /\ usedNullifiers = [n \in Nullifiers |-> FALSE]
    /\ zkPassportVerifier = 50
    /\ mrMarriages = <<>>
    /\ mrProposals = [i \in mrProposalIds |-> ZeroMrProposal]
    /\ personToMarriage = [h \in PersonHashes |-> 0]
    /\ zkPassportMerkleRoot = Root0
    /\ last = [op |-> "constructor", id |-> 0, a |-> 0, b |-> 0,
               proof |-> <<>>, sender |-> Owner, result |-> OK]
    /\ emitted = <<>>
    /\ createdLog = {}
    /\ date = 0
    /\ pendingVerifications = <<>>
    /\ completedProofs = <<>>

\* the registries as deployed and a service with no call in flight
InitStorage(mrProposalIds) ==
    /\ InitChain(mrProposalIds)
    /\ calls = EmptyBag
    /\ svcLast = NoReturn

InitReal == registry = REAL /\ InitStorage({1, 2})

NextReal ==
    \/ CreateMarriageProposal
    \/ AcceptMarriage
    \/ CreateMarriage
    \/ RequestDivorce
    \/ UpdateZKPassportVerifier
    \/ Tick

SpecReal == InitReal /\ [][NextReal]_vars

InitSimple == registry = SIMPLE /\ InitStorage({1, 2})

NextSimple ==
    \/ ProposeMarriage
    \/ MrAcceptMarriage
    \/ MrRequestDivorce
    \/ UpdateZKPassportMerkleRoot
    \/ Tick

SpecSimple == InitSimple /\ [][NextSimple]_vars

\* MarriageRegistry with a third proposal id, all transactions mined at
\* one block.timestamp
InitSimpleBlock == registry = SIMPLE /\ InitStorage({1, 2, 3})

NextSimpleBlock ==
    \/ ProposeMarriage
    \/ MrAcceptMarriage
    \/ MrRequestDivorce
    \/ UpdateZKPassportMerkleRoot

SpecSimpleBlock == InitSimpleBlock /\ [][NextSimpleBlock]_vars

\* MarriageRegistry's Merkle verification, called directly and through
\* proposeMarriage, under either root
NextMerkle ==
    \/ VerifyMerkleProofCall
    \/ ProposeMarriage
    \/ UpdateZKPassportMerkleRoot

SpecMerkle == InitSimple /\ [][NextMerkle]_vars

\* RealMarriageService in front of RealMarriageRegistry, within one instant
\* of the host clock, and another client of the registry that creates
\* marriages directly
NextService ==
    \/ SvcCreateMarriageProposal
    \/ SubmitZKPassportProof
    \/ SubmitVerified
    \/ SubmitCanMarry
    \/ ExecuteMarriage
    \/ ExecuteCanMarry
    \/ ExecuteCertificate
    \/ ExecuteCreateMarriage
    \/ ExecuteWait
    \/ CreateMarriage

SpecService == InitReal /\ [][NextService]_vars

\* the verification steps of RealMarriageService as the host clock advances
NextVerification ==
    \/ SvcCreateMarriageProposal
    \/ SubmitZKPassportProof
    \/ SubmitVerified
    \/ SubmitCanMarry
    \/ DateTick

SpecVerification == InitReal /\ [][NextVerification]_vars

\* either contract, deployed on its own
\* RealZKPassportService.canMarry on its own
InitCanMarry ==
    /\ registry = REAL
    /\ InitChain({1, 2})
    /\ \E call \in CanMarryInputs : calls = SetToBag({call})
    /\ svcLast = NoReturn

NextCanMarry == CanMarryCall

SpecCanMarry == InitCanMarry /\ [][NextCanMarry]_vars

Init == registry \in {REAL, SIMPLE} /\ InitStorage({1, 2})

Next == NextReal \/ NextSimple

Spec == Init /\ [][Next]_vars

\* both registries with their read operations, all calls within one block
NextViews ==
    \/ CreateMarriageProposal
    \/ AcceptMarriage
    \/ CreateMarriage
    \/ RequestDivorce
    \/ UpdateZKPassportVerifier
    \/ ProposeMarriage
    \/ MrAcceptMarriage
    \/ MrRequestDivorce
    \/ UpdateZKPassportMerkleRoot
    \/ GetMarriageStatusByNullifierCall
    \/ GetMarriageCall
    \/ VerifyMarriageCertificateCall
    \/ GetMarriageStatusCall

SpecViews == Init /\ [][NextViews]_vars

(***************************************************************************)
(* Properties.  A step that leaves block.timestamp alone and changes some  *)
(* variable is one transaction, and last' describes it.                    *)
(***************************************************************************)
CallStep == now' = now

\* the active marriage records that have identity n as a spouse
ActiveMarriagesOf(n) ==
    {m \in DOMAIN marriages :
        /\ marriages[m].isActive
        /\ n \in {marriages[m].spouse1Nullifier, marriages[m].spouse2Nullifier}}

IsMarried(n) == ActiveMarriagesOf(n) # {}

MrActiveMarriagesOf(h) ==
    {m \in DOMAIN mrMarriages :
        /\ mrMarriages[m].isActive
        /\ h \in {mrMarriages[m].spouse1Hash, mrMarriages[m].spouse2Hash}}

MrIsMarried(h) == MrActiveMarriagesOf(h) # {}

\* C1: in RealMarriageRegistry no nullifier is a spouse of more than one
\* marriage record with isActive = true.
C1_UniqueActiveMarriage ==
    registry = REAL =>
        \A n \in Nullifiers : Cardinality(ActiveMarriagesOf(n)) <= 1

\* C2: in MarriageRegistry no identity is a spouse of more than one
\* marriage record with isActive = true.
C2_UniqueActiveMarriage ==
    registry = SIMPLE =>
        \A h \in PersonHashes : Cardinality(MrActiveMarriagesOf(h)) <= 1

\* C3: in RealMarriageRegistry every active marriage record m has both of
\* its spouses mapped to m by nullifierToMarriage and marked in
\* usedNullifiers.
C3_IndexConsistency ==
    registry = REAL =>
        \A m \in DOMAIN marriages :
            marriages[m].isActive =>
                /\ nullifierToMarriage[marriages[m].spouse1Nullifier] = m
                /\ nullifierToMarriage[marriages[m].spouse2Nullifier] = m
                /\ usedNullifiers[marriages[m].spouse1Nullifier]
                /\ usedNullifiers[marriages[m].spouse2Nullifier]

\* C4 as stated: a createMarriageProposal that names a nullifier that is a
\* spouse of an active marriage fails with AlreadyMarried and stores no
\* proposal.
C4_FailsWithAlreadyMarried ==
    [][(/\ CallStep
        /\ registry = REAL
        /\ last'.op = "createMarriageProposal"
        /\ IsMarried(last'.a) \/ IsMarried(last'.b))
       => (last'.result = "AlreadyMarried" /\ proposals' = proposals)]_vars

\* C4 as amended: a createMarriageProposal that names a nullifier that is a
\* spouse of an active marriage fails with NullifierAlreadyUsed (the
\* consumed-nullifier check comes first) and stores no proposal.
C4_FailsWithNullifierAlreadyUsed ==
    [][(/\ CallStep
        /\ registry = REAL
        /\ last'.op = "createMarriageProposal"
        /\ IsMarried(last'.a) \/ IsMarried(last'.b))
       => (last'.result = "NullifierAlreadyUsed" /\ proposals' = proposals)]_vars

\* a createMarriageProposal naming a married nullifier has been rejected
C4_Witness ==
    /\ registry = REAL
    /\ last.op = "createMarriageProposal"
    /\ IsMarried(last.a) \/ IsMarried(last.b)
    /\ last.result = "NullifierAlreadyUsed"

\* C5: in both registries acceptMarriage on a pending proposal fails and
\* creates no marriage whenever the proposal's proposer or proposee is at
\* that moment a spouse of an active marriage.
C5_AcceptRejectsMarried ==
    [][(CallStep /\ last'.op = "acceptMarriage") =>
         IF registry = REAL
         THEN (/\ proposals[last'.id].proposerNullifier # 0
               /\ ~proposals[last'.id].isAccepted
               /\ \/ IsMarried(proposals[last'.id].proposerNullifier)
                  \/ IsMarried(proposals[last'.id].proposeeNullifier))
              => (last'.result # OK /\ marriages' = marriages)
         ELSE (/\ mrProposals[last'.id].proposer # 0
               /\ ~mrProposals[last'.id].isAccepted
               /\ \/ MrIsMarried(mrProposals[last'.id].proposer)
                  \/ MrIsMarried(mrProposals[last'.id].proposee))
              => (last'.result # OK /\ mrMarriages' = mrMarriages)]_vars

\* C6: in MarriageRegistry a proposeMarriage by an address that is a spouse
\* of an active marriage and presents a valid Merkle proof reverts with
\* "Already married" and stores no proposal (stated for a proposalId that is
\* not stored yet, the case of testCannotMarryWhenAlreadyMarried).
C6_MarriedProposerRejected ==
    [][(/\ CallStep
        /\ registry = SIMPLE
        /\ last'.op = "proposeMarriage"
        /\ MrIsMarried(AddressHash(last'.sender))
        /\ VerifyZKPassport(last'.sender, last'.proof)
        /\ mrProposals[last'.id].proposer = 0)
       => (last'.result = "Already married"
           /\ mrProposals' = mrProposals)]_vars

\* C7: in MarriageRegistry a proposeMarriage that names a proposee that is a
\* spouse of an active marriage is rejected and stores no proposal.
C7_MarriedProposeeRejected ==
    [][(/\ CallStep
        /\ registry = SIMPLE
        /\ last'.op = "proposeMarriage"
        /\ MrIsMarried(last'.b))
       => (last'.result # OK /\ mrProposals' = mrProposals)]_vars

\* C8: in both registries no proposal whose proposer equals its proposee is
\* ever stored.
C8_NoSelfProposal ==
    /\ \A i \in ProposalIds :
          proposals[i].proposerNullifier # 0 =>
              proposals[i].proposerNullifier # proposals[i].proposeeNullifier
    /\ \A i \in MrProposalIds :
          mrProposals[i].proposer # 0 =>
              mrProposals[i].proposer # mrProposals[i].proposee

\* C9 as stated: in both registries a proposal-creation call whose
\* proposalId is already stored fails with "Proposal already exists" and
\* leaves the stored proposal unchanged.
C9_FailsWithProposalAlreadyExists ==
    [][/\ (/\ CallStep
           /\ registry = REAL
           /\ last'.op = "createMarriageProposal"
           /\ proposals[last'.id].proposerNullifier # 0)
          => (/\ last'.result = "Proposal already exists"
              /\ proposals' = proposals)
       /\ (/\ CallStep
           /\ registry = SIMPLE
           /\ last'.op = "proposeMarriage"
           /\ mrProposals[last'.id].proposer # 0)
          => (/\ last'.result = "Proposal already exists"
              /\ mrProposals' = mrProposals)]_vars

\* C9 as amended: in both registries a proposal-creation call whose
\* proposalId is already stored fails and leaves the stored proposal
\* unchanged; the error is "Proposal already exists", except that
\* RealMarriageRegistry answers NullifierAlreadyUsed when a nullifier the
\* call names is already consumed.
C9_DuplicateProposalRejected ==
    [][/\ (/\ CallStep
           /\ registry = REAL
           /\ last'.op = "createMarriageProposal"
           /\ proposals[last'.id].proposerNullifier # 0)
          => (/\ last'.result =
                    IF usedNullifiers[last'.a] \/ usedNullifiers[last'.b]
                    THEN "NullifierAlreadyUsed"
                    ELSE "Proposal already exists"
              /\ proposals' = proposals)
       /\ (/\ CallStep
           /\ registry = SIMPLE
           /\ last'.op = "proposeMarriage"
           /\ mrProposals[last'.id].proposer # 0)
          => (/\ last'.result = "Proposal already exists"
              /\ mrProposals' = mrProposals)]_vars

\* a proposeMarriage on a stored proposalId has been rejected as a duplicate
C9_Witness ==
    /\ registry = SIMPLE
    /\ last.op = "proposeMarriage"
    /\ mrProposals[last.id].proposer # 0
    /\ last.result = "Proposal already exists"

\* C10: in RealMarriageRegistry acceptMarriage on a stored proposal at
\* now > expiresAt fails with ProposalExpired and creates no marriage, while
\* the proposal's isExpired flag is still false; an acceptMarriage succeeds
\* only at now <= expiresAt.
C10_LazyExpiry ==
    [][(CallStep /\ registry = REAL /\ last'.op = "acceptMarriage") =>
         /\ (/\ proposals[last'.id].proposerNullifier # 0
             /\ now > proposals[last'.id].expiresAt)
            => (/\ last'.result = "ProposalExpired"
                /\ ~proposals[last'.id].isExpired
                /\ marriages' = marriages
                /\ proposals' = proposals)
         /\ last'.result = OK => now <= proposals[last'.id].expiresAt]_vars

\* an acceptMarriage has been rejected as expired on a proposal that no
\* operation marked expired
C10_Witness ==
    /\ registry = REAL
    /\ last.op = "acceptMarriage"
    /\ proposals[last.id].proposerNullifier # 0
    /\ ~proposals[last.id].isExpired
    /\ now > proposals[last.id].expiresAt
    /\ last.result = "ProposalExpired"

\* the two spouse identities of a marriage record
SpousesOf(marriage) == {marriage.spouse1Nullifier, marriage.spouse2Nullifier}
MrSpousesOf(marriage) == {marriage.spouse1Hash, marriage.spouse2Hash}

\* C11: in both registries a requestDivorce by a spouse of an active
\* marriage succeeds and leaves the marriage inactive, and a requestDivorce
\* on a marriage that is not active fails with MarriageNotActive /
\* "Marriage not active".
C11_DivorceOnce ==
    [][(CallStep /\ last'.op = "requestDivorce") =>
         /\ registry = REAL =>
              /\ ~MarriageAt(last'.id).isActive
                 => last'.result = "MarriageNotActive"
              /\ (/\ MarriageAt(last'.id).isActive
                  /\ last'.a \in SpousesOf(MarriageAt(last'.id)))
                 => (/\ last'.result = OK
                     /\ ~marriages'[last'.id].isActive)
         /\ registry = SIMPLE =>
              /\ ~MrMarriageAt(last'.id).isActive
                 => last'.result = "Marriage not active"
              /\ (/\ MrMarriageAt(last'.id).isActive
                  /\ last'.a \in MrSpousesOf(MrMarriageAt(last'.id)))
                 => (/\ last'.result = OK
                     /\ ~mrMarriages'[last'.id].isActive)]_vars

\* C14: in every state, for every active marriage and each of its two
\* spouses, a requestDivorce by that spouse succeeds; in MarriageRegistry
\* the spouse has a Merkle proof with which it succeeds, whatever the root.
C14_UnilateralDivorce ==
    /\ registry = REAL =>
         \A m \in DOMAIN marriages :
            marriages[m].isActive =>
               \A n \in SpousesOf(marriages[m]) :
                  RequestDivorceResult(m, n) = OK
    /\ registry = SIMPLE =>
         \A m \in DOMAIN mrMarriages :
            mrMarriages[m].isActive =>
               \A u \in Users :
                  AddressHash(u) \in MrSpousesOf(mrMarriages[m]) =>
                     \E merkleProof \in MerkleProofInputs(u) :
                        MrRequestDivorceResult(u, m, merkleProof) = OK

\* C15: in both registries a requestDivorce on an active marriage by an
\* identity that is neither spouse fails with NotAuthorized / "Not a spouse
\* in this marriage" and changes neither the marriages nor the index.
C15_DivorceAuthorization ==
    [][(CallStep /\ last'.op = "requestDivorce") =>
         /\ (/\ registry = REAL
             /\ MarriageAt(last'.id).isActive
             /\ last'.a \notin SpousesOf(MarriageAt(last'.id)))
            => (/\ last'.result = "NotAuthorized"
                /\ marriages' = marriages
                /\ nullifierToMarriage' = nullifierToMarriage)
         /\ (/\ registry = SIMPLE
             /\ MrMarriageAt(last'.id).isActive
             /\ last'.a \notin MrSpousesOf(MrMarriageAt(last'.id)))
            => (/\ last'.result = "Not a spouse in this marriage"
                /\ mrMarriages' = mrMarriages
                /\ personToMarriage' = personToMarriage)]_vars

\* a third identity has been refused the divorce of an active marriage
C15_Witness ==
    /\ registry = REAL
    /\ last.op = "requestDivorce"
    /\ MarriageAt(last.id).isActive
    /\ last.a \notin SpousesOf(MarriageAt(last.id))
    /\ last.result = "NotAuthorized"

\* C16: in MarriageRegistry acceptMarriage succeeds only for the caller
\* whose address-derived identity is the stored proposee; any other caller,
\* and any call on a proposalId never created, fails with "Not the proposee"
\* and creates no marriage.
C16_OnlyProposeeAccepts ==
    [][(CallStep /\ registry = SIMPLE /\ last'.op = "acceptMarriage") =>
         /\ last'.result = OK
            => (/\ mrProposals[last'.id].proposer # 0
                /\ mrProposals[last'.id].proposee = AddressHash(last'.sender))
         /\ (\/ mrProposals[last'.id].proposer = 0
             \/ mrProposals[last'.id].proposee # AddressHash(last'.sender))
            => (/\ last'.result = "Not the proposee"
                /\ mrMarriages' = mrMarriages
                /\ personToMarriage' = personToMarriage
                /\ mrProposals' = mrProposals)]_vars

\* somebody other than the proposee has tried to accept a stored proposal
C16_Witness ==
    /\ registry = SIMPLE
    /\ last.op = "acceptMarriage"
    /\ mrProposals[last.id].proposer # 0
    /\ mrProposals[last.id].proposee # AddressHash(last.sender)
    /\ last.result = "Not the proposee"

\* the certificate hashes a verifier may present: the ones acceptMarriage is
\* given, the stored ones, and bytes32(0)
CertificateQueries ==
    CertificateInputs \cup {0}
        \cup {marriages[m].certificateHash : m \in DOMAIN marriages}

\* C12: verifyMarriageCertificate(marriageId, certificateHash, requester) is
\* true exactly when the marriage is active, requester is one of its two
\* spouse nullifiers and certificateHash is the stored hash; after a
\* successful acceptMarriage with hash C it is true for both spouses with C,
\* false with another hash, and false for a nullifier that is not a spouse.
C12_CertificateRoundTrip ==
    registry = REAL =>
      /\ \A m \in (DOMAIN marriages) \cup MarriageIdInputs,
            c \in CertificateQueries, n \in Nullifiers :
            VerifyMarriageCertificate(m, c, n) <=>
               /\ MarriageAt(m).isActive
               /\ n \in SpousesOf(MarriageAt(m))
               /\ MarriageAt(m).certificateHash = c
      /\ (last.op = "acceptMarriage" /\ last.result = OK) =>
            LET m == emitted[1][2]
            IN  \A c \in CertificateQueries, n \in Nullifiers :
                   VerifyMarriageCertificate(m, c, n) <=>
                      (c \in CertificateInputs /\ n \in {last.a, last.b})

\* an accepted marriage whose certificate verifies for a spouse, and does
\* not verify with another hash or for a third nullifier
C12_Witness ==
    /\ registry = REAL
    /\ last.op = "acceptMarriage"
    /\ last.result = OK
    /\ \E c \in CertificateInputs :
          /\ VerifyMarriageCertificate(emitted[1][2], c, last.a)
          /\ VerifyMarriageCertificate(emitted[1][2], c, last.b)
          /\ ~VerifyMarriageCertificate(emitted[1][2], 0, last.a)
          /\ \E n \in Nullifiers \ {last.a, last.b} :
                ~VerifyMarriageCertificate(emitted[1][2], c, n)

C17_AllOrNothing ==
    [][CallStep =>
         /\ last'.result # OK =>
               /\ UNCHANGED realVars
               /\ UNCHANGED mrVars
         /\ (/\ registry = REAL
             /\ last'.op \in {"acceptMarriage", "createMarriage"}
             /\ last'.result = OK)
            => LET m == IF last'.op = "createMarriage" THEN last'.id
                        ELSE KeccakMarriageId(last'.a, last'.b, now,
                                 proposals[last'.id].jurisdiction)
               IN  /\ last'.op = "acceptMarriage"
                      => proposals'[last'.id].isAccepted
                   /\ m \in DOMAIN marriages'
                   /\ marriages'[m].isActive
                   /\ marriages'[m].spouse1Nullifier = last'.a
                   /\ marriages'[m].spouse2Nullifier = last'.b
                   /\ nullifierToMarriage'[last'.a] = m
                   /\ nullifierToMarriage'[last'.b] = m
                   /\ usedNullifiers'[last'.a]
                   /\ usedNullifiers'[last'.b]
         /\ (/\ registry = SIMPLE
             /\ last'.op = "acceptMarriage"
             /\ last'.result = OK)
            => LET m == KeccakMrMarriageId(last'.a, last'.b, now)
               IN  /\ mrProposals'[last'.id].isAccepted
                   /\ m \in DOMAIN mrMarriages'
                   /\ mrMarriages'[m].isActive
                   /\ mrMarriages'[m].spouse1Hash = last'.a
                   /\ mrMarriages'[m].spouse2Hash = last'.b
                   /\ personToMarriage'[last'.a] = m
                   /\ personToMarriage'[last'.b] = m]_vars

\* an acceptMarriage has failed on a proposal that is stored, after another
\* one created a marriage
C17_Witness ==
    /\ registry = REAL
    /\ last.op = "acceptMarriage"
    /\ last.result = "Already accepted"
    /\ \E m \in DOMAIN marriages : marriages[m].isActive

\* C18: in RealMarriageRegistry usedNullifiers[n] never goes from true to
\* false, and no acceptMarriage or createMarriage creates a marriage with a
\* spouse whose nullifier was already consumed.
C18_ConsumedNeverReused ==
    [][(CallStep /\ registry = REAL) =>
         /\ \A n \in Nullifiers : usedNullifiers[n] => usedNullifiers'[n]
         /\ (/\ last'.op \in {"acceptMarriage", "createMarriage"}
             /\ last'.result = OK)
            => (/\ ~usedNullifiers[last'.a]
                /\ ~usedNullifiers[last'.b])]_vars

\* C19: in MarriageRegistry a successful requestDivorce leaves both former
\* spouses with an empty personToMarriage entry, and from then on each of
\* them, with a Merkle proof that verifies under the current root, has
\* proposeMarriage succeed on an unused proposalId and acceptMarriage
\* succeed on a pending proposal addressed to it.
C19_DivorceFreesIdentities ==
    [][(/\ CallStep
        /\ registry = SIMPLE
        /\ last'.op = "requestDivorce"
        /\ last'.result = OK) =>
         \A u \in Users :
            AddressHash(u) \in MrSpousesOf(MrMarriageAt(last'.id)) =>
               /\ personToMarriage'[AddressHash(u)] = 0
               /\ \A id \in MrProposalIds,
                     merkleProof \in MerkleProofInputs(u) :
                     (/\ mrProposals[id].proposer = 0
                      /\ VerifyZKPassport(u, merkleProof))
                     => ProposeMarriageResult(u, id, merkleProof)' = OK
               /\ \A id \in MrProposalIds,
                     merkleProof \in MerkleProofInputs(u) :
                     (/\ mrProposals[id].proposer # 0
                      /\ mrProposals[id].proposee = AddressHash(u)
                      /\ ~mrProposals[id].isAccepted
                      /\ ~mrProposals[id].isExpired
                      /\ VerifyZKPassport(u, merkleProof))
                     => MrAcceptMarriageResult(u, id, merkleProof)' = OK]_vars

\* a divorced spouse is in a new active marriage, created after the divorce
C19_Witness ==
    /\ registry = SIMPLE
    /\ last.op = "acceptMarriage"
    /\ last.result = OK
    /\ \E m \in DOMAIN mrMarriages :
          /\ ~mrMarriages[m].isActive
          /\ MrSpousesOf(mrMarriages[m]) \cap {last.a, last.b} # {}

\* C20: an update of the root / verifier by the owner stores the new value;
\* by anybody else it fails and the stored value stays; no other step
\* changes the root or the verifier.
C20_OwnerGatedConfiguration ==
    [][/\ zkPassportVerifier' # zkPassportVerifier
          => (/\ last'.op = "updateZKPassportVerifier"
              /\ last'.sender = Owner)
       /\ zkPassportMerkleRoot' # zkPassportMerkleRoot
          => (/\ last'.op = "updateZKPassportMerkleRoot"
              /\ last'.sender = Owner)
       /\ (CallStep /\ last'.op = "updateZKPassportVerifier")
          => IF last'.sender = Owner
             THEN last'.result = OK /\ zkPassportVerifier' = last'.id
             ELSE /\ last'.result # OK
                  /\ zkPassportVerifier' = zkPassportVerifier
       /\ (CallStep /\ last'.op = "updateZKPassportMerkleRoot")
          => IF last'.sender = Owner
             THEN last'.result = OK /\ zkPassportMerkleRoot' = last'.id
             ELSE /\ last'.result # OK
                  /\ zkPassportMerkleRoot' = zkPassportMerkleRoot]_vars

\* a non-owner has been refused the update after the owner replaced the root
C20_Witness ==
    /\ registry = SIMPLE
    /\ last.op = "updateZKPassportMerkleRoot"
    /\ last.sender # Owner
    /\ last.result # OK
    /\ zkPassportMerkleRoot = Root1

\* C21: in both registries every successful updateZKPassportMerkleRoot /
\* updateZKPassportVerifier emits one event that carries the new value.
C21_ConfigurationChangeEmits ==
    [][(/\ CallStep
        /\ last'.op \in {"updateZKPassportMerkleRoot",
                         "updateZKPassportVerifier"}
        /\ last'.result = OK) =>
         /\ Len(emitted') = 1
         /\ emitted'[1][2] = last'.id]_vars

\* C22: in RealMarriageRegistry no acceptMarriage or createMarriage changes
\* a marriage record that exists already, and a record whose isActive is
\* false never has isActive = true again.
C22_MarriageLifecycle ==
    [][(CallStep /\ registry = REAL) =>
         \A m \in DOMAIN marriages :
            /\ last'.op \in {"acceptMarriage", "createMarriage"}
               => marriages'[m] = marriages[m]
            /\ ~marriages[m].isActive => ~marriages'[m].isActive]_vars

\* C23 as stated: in both registries a stored proposal is never deleted and
\* changes only by its accepted flag going from false to true, in a
\* successful acceptMarriage of that proposalId; an acceptMarriage on an
\* accepted proposal fails with "Already accepted".
C23_FailsWithAlreadyAccepted ==
    [][(CallStep /\ last'.op = "acceptMarriage") =>
         /\ (registry = REAL /\ proposals[last'.id].isAccepted)
            => last'.result = "Already accepted"
         /\ (registry = SIMPLE /\ mrProposals[last'.id].isAccepted)
            => last'.result = "Already accepted"]_vars

\* C23 as amended: in both registries a stored proposal is never deleted and
\* changes only by its accepted flag going from false to true, in a
\* successful acceptMarriage of that proposalId; an acceptMarriage on an
\* accepted proposal fails: with "Already accepted", except ProposalExpired
\* in RealMarriageRegistry once block.timestamp is past expiresAt, and "Not
\* the proposee" in MarriageRegistry for a caller that is not the proposee.
C23_ProposalLifecycle ==
    [][CallStep =>
         /\ registry = REAL =>
              /\ \A i \in ProposalIds :
                    proposals[i].proposerNullifier # 0 =>
                       \/ proposals'[i] = proposals[i]
                       \/ /\ ~proposals[i].isAccepted
                          /\ proposals'[i] =
                                [proposals[i] EXCEPT !.isAccepted = TRUE]
                          /\ last'.op = "acceptMarriage"
                          /\ last'.id = i
                          /\ last'.result = OK
              /\ (/\ last'.op = "acceptMarriage"
                  /\ proposals[last'.id].isAccepted)
                 => (/\ last'.result =
                          IF now > proposals[last'.id].expiresAt
                          THEN "ProposalExpired" ELSE "Already accepted"
                     /\ marriages' = marriages)
         /\ registry = SIMPLE =>
              /\ \A i \in MrProposalIds :
                    mrProposals[i].proposer # 0 =>
                       \/ mrProposals'[i] = mrProposals[i]
                       \/ /\ ~mrProposals[i].isAccepted
                          /\ mrProposals'[i] =
                                [mrProposals[i] EXCEPT !.isAccepted = TRUE]
                          /\ last'.op = "acceptMarriage"
                          /\ last'.id = i
                          /\ last'.result = OK
              /\ (/\ last'.op = "acceptMarriage"
                  /\ mrProposals[last'.id].isAccepted)
                 => (/\ last'.result =
                          IF mrProposals[last'.id].proposee
                                # AddressHash(last'.sender)
                          THEN "Not the proposee" ELSE "Already accepted"
                     /\ mrMarriages' = mrMarriages)]_vars

\* an accepted proposal has been refused a second acceptance after its
\* expiry
C23_Witness ==
    /\ registry = REAL
    /\ last.op = "acceptMarriage"
    /\ proposals[last.id].isAccepted
    /\ last.result = "ProposalExpired"

\* the pending (neither accepted nor expired) proposals that name nullifier n
PendingProposalsOf(n) ==
    {i \in ProposalIds :
        /\ proposals[i].proposerNullifier # 0
        /\ ~proposals[i].isAccepted
        /\ now <= proposals[i].expiresAt
        /\ n \in {proposals[i].proposerNullifier,
                  proposals[i].proposeeNullifier}}

\* C24: in RealMarriageRegistry a createMarriageProposal that names a
\* nullifier named by a pending proposal stored under another proposalId
\* fails and stores nothing.
C24_RacingProposals ==
    [][(/\ CallStep
        /\ registry = REAL
        /\ last'.op = "createMarriageProposal"
        /\ \E n \in {last'.a, last'.b} :
              PendingProposalsOf(n) \ {last'.id} # {}) =>
         /\ last'.result # OK
         /\ proposals' = proposals]_vars

RECURSIVE MerkleAccumulator(_, _, _)
\* the accumulator after the first k proof elements, each combined with it
\* as the hash of the sorted pair
MerkleAccumulator(leaf, proof, k) ==
    IF k = 0 THEN leaf
    ELSE SortedPair(MerkleAccumulator(leaf, proof, k - 1), proof[k])

\* C25: verifyMerkleProof(proof, root, leaf) returns true exactly when
\* folding leaf with the proof elements in order, by the sorted-pair hash,
\* yields root, and with an empty proof exactly when leaf = root; it always
\* returns.  A proposeMarriage with an empty proof by a caller whose leaf is
\* not the root is rejected and stores nothing, with "Invalid zkPassport
\* proof" when its proposalId is unused.
C25_MembershipResult ==
    [][CallStep =>
         /\ last'.op = "verifyMerkleProof" =>
              /\ last'.result \in {"true", "false"}
              /\ (last'.result = "true") <=>
                    (MerkleAccumulator(last'.a, last'.proof,
                                       Len(last'.proof)) = last'.id)
              /\ last'.proof = <<>> =>
                    ((last'.result = "true") <=> (last'.a = last'.id))
         /\ (/\ last'.op = "proposeMarriage"
             /\ last'.proof = <<>>
             /\ KeccakAddress(last'.sender) # zkPassportMerkleRoot) =>
              /\ last'.result # OK
              /\ mrProposals[last'.id].proposer = 0
                 => last'.result = "Invalid zkPassport proof"
              /\ mrProposals' = mrProposals]_vars

\* C25 as stated: the same, with "Invalid zkPassport proof" as the error of
\* every proposeMarriage by a non-member with an empty proof, whatever the
\* proposalId.
C25_NonMemberInvalidProof ==
    [][CallStep =>
         /\ last'.op = "verifyMerkleProof" =>
              /\ last'.result \in {"true", "false"}
              /\ (last'.result = "true") <=>
                    (MerkleAccumulator(last'.a, last'.proof,
                                       Len(last'.proof)) = last'.id)
         /\ (/\ last'.op = "proposeMarriage"
             /\ last'.proof = <<>>
             /\ KeccakAddress(last'.sender) # zkPassportMerkleRoot) =>
              last'.result = "Invalid zkPassport proof"]_vars

\* the single-leaf tree: an empty proof has verified
C25_Witness ==
    /\ last.op = "verifyMerkleProof"
    /\ last.proof = <<>>
    /\ last.result = "true"

\* C26: verifyMerkleProof combines the accumulator a and the sibling s as
\* hash(min(a, s), max(a, s)), so combining is symmetric, and a leaf and its
\* sibling verify against the same root with each other as first proof
\* element and the same remaining path.
C26_CanonicalPairOrdering ==
    [][(/\ CallStep
        /\ last'.op = "verifyMerkleProof"
        /\ last'.proof # <<>>) =>
         LET a == last'.a
             s == Head(last'.proof)
             rest == Tail(last'.proof)
         IN  /\ MerkleFold(a, <<s>>) =
                   KeccakPair(IF a <= s THEN a ELSE s,
                              IF a <= s THEN s ELSE a)
             /\ MerkleFold(a, <<s>>) = MerkleFold(s, <<a>>)
             /\ (last'.result = "true") <=>
                   VerifyMerkleProof(<<a>> \o rest, last'.id, s)]_vars

\* a leaf greater than its sibling has verified against the root of the
\* tree
C26_Witness ==
    /\ last.op = "verifyMerkleProof"
    /\ last.proof # <<>>
    /\ last.a > Head(last.proof)
    /\ last.id = Root0
    /\ last.result = "true"

\* a proof that createMarriageProposal must reject for the nullifier it is
\* presented with: empty, or hashing to another nullifier
ProofRejects(proof, nullifier) ==
    \/ Len(proof) = 0
    \/ KeccakNullifier(KeccakProof(proof)) # nullifier

\* the checks of createMarriageProposal that precede the proof checks all
\* pass
ReachesProofCheck(proposalId, proposerNullifier, proposeeNullifier) ==
    /\ ~usedNullifiers[proposerNullifier]
    /\ ~usedNullifiers[proposeeNullifier]
    /\ nullifierToMarriage[proposerNullifier] = 0
    /\ nullifierToMarriage[proposeeNullifier] = 0
    /\ proposals[proposalId].proposerNullifier = 0

C28_DirectCreation ==
    [][(CallStep /\ last'.op = "createMarriage") =>
         LET m == last'.id
             n1 == last'.a
             n2 == last'.b
         IN  /\ (/\ ~usedNullifiers[n1] /\ ~usedNullifiers[n2]
                 /\ nullifierToMarriage[n1] = 0
                 /\ nullifierToMarriage[n2] = 0) =>
                  /\ last'.result = OK
                  /\ m \in DOMAIN marriages'
                  /\ marriages'[m].isActive
                  /\ marriages'[m].spouse1Nullifier = n1
                  /\ marriages'[m].spouse2Nullifier = n2
                  /\ marriages'[m].jurisdiction = "default"
                  /\ marriages'[m].marriageDate = now
                  /\ nullifierToMarriage'[n1] = m
                  /\ nullifierToMarriage'[n2] = m
                  /\ usedNullifiers'[n1]
                  /\ usedNullifiers'[n2]
             /\ (usedNullifiers[n1] \/ usedNullifiers[n2]) =>
                  /\ last'.result = "NullifierAlreadyUsed"
                  /\ UNCHANGED realVars]_vars

\* a direct creation has succeeded, and another has been refused for a
\* used nullifier
C28_Witness ==
    /\ last.op = "createMarriage"
    /\ last.result = "NullifierAlreadyUsed"
    /\ \E m \in DOMAIN marriages :
          /\ marriages[m].jurisdiction = "default"
          /\ marriages[m].spouse1Nullifier = last.a

\* C29: a successful requestDivorce emits exactly DivorceRequested(marriageId,
\* requester) followed by MarriageDissolved(marriageId); a successful
\* acceptMarriage or createMarriage emits exactly one MarriageCreated, which
\* carries the two spouses stored under its marriage id; a failed call
\* emits nothing; and every MarriageDissolved(m) comes after a
\* MarriageCreated(m) logged by an earlier transaction.
C29_EventTrace ==
    [][CallStep =>
         /\ last'.result # OK => emitted' = <<>>
         /\ (last'.op = "requestDivorce" /\ last'.result = OK) =>
              emitted' = <<<<"DivorceRequested", last'.id, last'.a>>,
                          <<"MarriageDissolved", last'.id>>>>
         /\ (/\ last'.op \in {"acceptMarriage", "createMarriage"}
             /\ last'.result = OK) =>
              /\ Len(emitted') = 1
              /\ emitted'[1][1] = "MarriageCreated"
              /\ LET m == emitted'[1][2]
                 IN  IF registry = REAL
                     THEN /\ m \in DOMAIN marriages'
                          /\ marriages'[m].spouse1Nullifier = emitted'[1][3]
                          /\ marriages'[m].spouse2Nullifier = emitted'[1][4]
                     ELSE /\ m \in DOMAIN mrMarriages'
                          /\ mrMarriages'[m].spouse1Hash = emitted'[1][3]
                          /\ mrMarriages'[m].spouse2Hash = emitted'[1][4]
         /\ \A i \in DOMAIN emitted' :
              emitted'[i][1] = "MarriageDissolved" =>
                 emitted'[i][2] \in createdLog]_vars

\* a divorce has just emitted its two events, for a marriage whose creation
\* is in the log
C29_Witness ==
    /\ last.op = "requestDivorce"
    /\ last.result = OK
    /\ Len(emitted) = 2
    /\ emitted[2] = <<"MarriageDissolved", last.id>>
    /\ last.id \in createdLog

\* what canMarry refuses under the service's jurisdiction (minAge 18, no
\* country list), spelled out on the two proofs a call holds
Refused(call) ==
    \/ ~call.proposerProof.isValid
    \/ ~call.proposeeProof.isValid
    \/ ~call.proposerProof.ageOver18
    \/ ~call.proposeeProof.ageOver18
    \/ ~call.proposerProof.documentValid
    \/ ~call.proposeeProof.documentValid
    \/ call.proposerProof.nullifier = call.proposeeProof.nullifier

\* the executeMarriage calls that have got past the canMarry check
PastTheGate ==
    {call \in InFlight :
       /\ call.fn = "executeMarriage"
       /\ call.pc \in {"generateMarriageCertificateData", "createMarriage",
                       "wait"}}

\* C30: executeMarriage sends contract.createMarriage only for two verified
\* proofs that it read from the store under the proposer and the proposee
\* key of its proposalId and that canMarry accepts; with a proof missing
\* it returns success=false with 'Both parties must complete zkPassport
\* verification first', and when canMarry refuses it returns success=false
\* with 'Marriage not allowed: ...', both without a transaction.
C30_GateBeforeWrite ==
    /\ [](\A call \in PastTheGate : ~Refused(call))
    /\ [][\* a call that starts has read both proofs from the store
           /\ \A call \in BagToSet(calls') :
                (/\ call.fn = "executeMarriage"
                 /\ call.pc = "canMarry"
                 /\ CopiesIn(call, calls') > CopiesIn(call, calls)) =>
                 LET proposerKey == VerificationKey(call.proposalId, "proposer")
                     proposeeKey == VerificationKey(call.proposalId, "proposee")
                 IN  /\ proposerKey \in DOMAIN completedProofs
                     /\ proposeeKey \in DOMAIN completedProofs
                     /\ call.proposerProof = completedProofs[proposerKey]
                     /\ call.proposeeProof = completedProofs[proposeeKey]
                     /\ call.proposerProof.isValid
                     /\ call.proposeeProof.isValid
                     /\ UNCHANGED <<realVars, last>>
              \* a call that returns at once had a proof missing
           /\ (/\ svcLast' # svcLast
               /\ svcLast'.fn = "executeMarriage"
               /\ calls' = calls) =>
                 /\ ~svcLast'.success
                 /\ svcLast'.error =
                       "Both parties must complete zkPassport verification first"
                 /\ \E proposalId \in SvcProposalIdInputs, role \in Roles :
                       VerificationKey(proposalId, role)
                           \notin DOMAIN completedProofs
                 /\ UNCHANGED <<realVars, last>>
              \* a call that canMarry refuses returns, and sends nothing
           /\ \A call \in InFlight :
                 (/\ call.fn = "executeMarriage"
                  /\ call.pc = "canMarry"
                  /\ Refused(call)
                  /\ calls' = Finish(call)) =>
                    /\ svcLast'.fn = "executeMarriage"
                    /\ ~svcLast'.success
                    /\ svcLast'.error = "Marriage not allowed"
                    /\ svcLast'.errors # <<>>
                    /\ UNCHANGED <<realVars, last>>
              \* the signer's transactions are createMarriage of the two
              \* nullifiers of a call that is past the gate
           /\ (last' # last /\ last'.sender = Signer) =>
                 /\ last'.op = "createMarriage"
                 /\ \E call \in PastTheGate :
                       /\ call.pc = "createMarriage"
                       /\ last'.id = call.marriageId
                       /\ last'.a = call.proposerProof.nullifier
                       /\ last'.b = call.proposeeProof.nullifier]_vars

\* the service has created a marriage on the registry for one call, and
\* canMarry has just refused another
C30_Witness ==
    /\ last.op = "createMarriage"
    /\ last.sender = Signer
    /\ last.result = OK
    /\ svcLast.fn = "executeMarriage"
    /\ svcLast.error = "Marriage not allowed"

\* the submitZKPassportProof calls in flight at the given await
SubmitsAt(pc) ==
    {call \in InFlight :
       call.fn = "submitZKPassportProof" /\ call.pc = pc}

\* C31: submitZKPassportProof throws when there is no pending verification
\* for (proposalId, role) and when that verification has expired, and
\* otherwise goes on to verify; a proof that fails verification is not
\* recorded and yields isValid=false, canProceed=false; canProceed is true
\* only for a call that, on recording its proof, found the proofs of both
\* roles in the store and had canMarry accept them, and it is false when a
\* role's proof is missing.
C31_SubmitProof ==
    /\ [](/\ \A key \in DOMAIN completedProofs : completedProofs[key].isValid
          /\ \A call \in SubmitsAt("canMarry") :
                /\ call.proofData.complete
                /\ call.proofData.verified)
    /\ [][\* a call gets to verifyProof only with a pending verification
           \* that has not expired
           /\ \A call \in BagToSet(calls') :
                (/\ call.fn = "submitZKPassportProof"
                 /\ call.pc = "verifyProof"
                 /\ CopiesIn(call, calls') > CopiesIn(call, calls)) =>
                 LET key == VerificationKey(call.proposalId, call.role)
                 IN  /\ key \in DOMAIN pendingVerifications
                     /\ date <= pendingVerifications[key].expiresAt
                     /\ completedProofs' = completedProofs
              \* a call that throws had none, or an expired one
           /\ (/\ svcLast' # svcLast
               /\ svcLast'.fn = "submitZKPassportProof"
               /\ svcLast'.threw # "") =>
                 /\ calls' = calls
                 /\ completedProofs' = completedProofs
                 /\ \E proposalId \in SvcProposalIdInputs, role \in Roles :
                       LET key == VerificationKey(proposalId, role)
                       IN  IF key \notin DOMAIN pendingVerifications
                           THEN svcLast'.threw =
                                  "No pending verification found for this proposal"
                           ELSE /\ date > pendingVerifications[key].expiresAt
                                /\ svcLast'.threw =
                                      "Verification request has expired"
              \* the outcome of verifyProof
           /\ \A call \in SubmitsAt("verifyProof") :
                 LET key == VerificationKey(call.proposalId, call.role)
                     verifies == call.proofData.complete
                                   /\ call.proofData.verified
                 IN  /\ (calls' = Finish(call) /\ ~verifies) =>
                          /\ svcLast'.fn = "submitZKPassportProof"
                          /\ svcLast'.threw = ""
                          /\ ~svcLast'.isValid
                          /\ ~svcLast'.canProceed
                          /\ completedProofs' = completedProofs
                     /\ (calls' = Finish(call) /\ verifies) =>
                          /\ svcLast'.isValid
                          /\ ~svcLast'.canProceed
                          /\ key \in DOMAIN completedProofs'
                          /\ completedProofs'[key].proofData = call.proofData
                          /\ \E role \in Roles :
                                VerificationKey(call.proposalId, role)
                                    \notin DOMAIN completedProofs'
              \* a call gets to canMarry with both proofs of the store
           /\ \A call \in BagToSet(calls') :
                (/\ call.fn = "submitZKPassportProof"
                 /\ call.pc = "canMarry"
                 /\ CopiesIn(call, calls') > CopiesIn(call, calls)) =>
                 LET proposerKey == VerificationKey(call.proposalId, "proposer")
                     proposeeKey == VerificationKey(call.proposalId, "proposee")
                     key == VerificationKey(call.proposalId, call.role)
                 IN  /\ proposerKey \in DOMAIN completedProofs'
                     /\ proposeeKey \in DOMAIN completedProofs'
                     /\ call.proposerProof = completedProofs'[proposerKey]
                     /\ call.proposeeProof = completedProofs'[proposeeKey]
                     /\ completedProofs'[key].proofData = call.proofData
              \* canProceed is what canMarry says of these two
           /\ (svcLast' # svcLast /\ svcLast'.canProceed) =>
                 /\ svcLast'.fn = "submitZKPassportProof"
                 /\ svcLast'.isValid
                 /\ \E call \in SubmitsAt("canMarry") :
                       /\ calls' = Finish(call)
                       /\ ~Refused(call)
           /\ \A call \in SubmitsAt("canMarry") :
                 (calls' = Finish(call) /\ Refused(call)) =>
                    /\ svcLast'.isValid
                    /\ ~svcLast'.canProceed]_vars

\* a submission has been turned away because its verification request had
\* expired
C31_Witness ==
    /\ svcLast.fn = "submitZKPassportProof"
    /\ svcLast.threw = "Verification request has expired"

C33_DivorceOfUnknownMarriage ==
    [][(CallStep /\ last'.op = "requestDivorce") =>
         /\ (registry = REAL /\ last'.id \notin DOMAIN marriages) =>
               /\ last'.result = "MarriageNotActive"
               /\ UNCHANGED <<realVars, mrVars>>
               /\ emitted' = <<>>
         /\ (registry = SIMPLE /\ last'.id \notin DOMAIN mrMarriages) =>
               /\ last'.result = "Marriage not active"
               /\ UNCHANGED <<realVars, mrVars>>
               /\ emitted' = <<>>]_vars

\* a registry that holds a marriage has just turned away a divorce request
\* for an id it never stored
C33_Witness ==
    /\ registry = REAL
    /\ marriages # <<>>
    /\ last.op = "requestDivorce"
    /\ last.id \notin DOMAIN marriages
    /\ last.result = "MarriageNotActive"

\* C34: in every reachable state of RealMarriageRegistry a nullifier with a
\* non-zero nullifierToMarriage entry has its usedNullifiers flag set; so in
\* createMarriageProposal and createMarriage a married nullifier is answered
\* by the NullifierAlreadyUsed check, and AlreadyMarried is never returned.
C34_MarriedImpliesUsed ==
    /\ [](\A n \in Nullifiers :
            nullifierToMarriage[n] # 0 => usedNullifiers[n])
    /\ [][(/\ CallStep
           /\ last'.op \in {"createMarriageProposal", "createMarriage"}) =>
             /\ last'.result # "AlreadyMarried"
             /\ (\/ nullifierToMarriage[last'.a] # 0
                 \/ nullifierToMarriage[last'.b] # 0) =>
                   last'.result = "NullifierAlreadyUsed"]_vars

\* createMarriage for a nullifier that is in a marriage has just been
\* answered with NullifierAlreadyUsed
C34_Witness ==
    /\ registry = REAL
    /\ last.op = "createMarriage"
    /\ nullifierToMarriage[last.a] # 0
    /\ last.result = "NullifierAlreadyUsed"

\* C35: in every reachable state of RealMarriageRegistry, if
\* getMarriageStatusByNullifier(n) returns isMarried = true with marriageId m
\* then n is spouse1Nullifier or spouse2Nullifier of marriages[m]; and if n
\* is a spouse of some active marriage then getMarriageStatusByNullifier(n)
\* returns isMarried = true.
C35_StatusLookupSound ==
    registry = REAL =>
      \A n \in Nullifiers \ {0} :
        LET status == GetMarriageStatusByNullifier(n)
        IN  /\ status[1] =>
                 n \in {MarriageAt(status[2]).spouse1Nullifier,
                        MarriageAt(status[2]).spouse2Nullifier}
            /\ IsMarried(n) => status[1]

\* C36: in MarriageRegistry no operation sets a proposal's isExpired, so no
\* call ends in "Proposal expired", and a pending proposal stays acceptable
\* by its proposee however long after its creation: acceptMarriage by the
\* proposee, unmarried and with a valid membership proof, succeeds at any
\* later time.
C36_ProposalsNeverExpire ==
    /\ [](\A i \in DOMAIN mrProposals : ~mrProposals[i].isExpired)
    /\ [][(CallStep /\ registry = SIMPLE) =>
             /\ last'.result # "Proposal expired"
             /\ (/\ last'.op = "acceptMarriage"
                 /\ mrProposals[last'.id].proposee = AddressHash(last'.sender)
                 /\ ~mrProposals[last'.id].isAccepted
                 /\ VerifyZKPassport(last'.sender, last'.proof)
                 /\ personToMarriage[AddressHash(last'.sender)] = 0) =>
                   /\ last'.result = OK
                   /\ mrProposals'[last'.id].isAccepted]_vars

\* a proposal has been accepted in the last block of the model, having been
\* made in the first
C36_Witness ==
    /\ registry = SIMPLE
    /\ last.op = "acceptMarriage"
    /\ last.result = OK
    /\ mrProposals[last.id].timestamp = 1
    /\ now = MaxTime

\* the read operations of the two registries
ReadOperations ==
    {"getMarriageStatusByNullifier", "getMarriage",
     "verifyMarriageCertificate", "getMarriageStatus"}

\* C37: once a proposal is stored, its proposer, proposee, hash, timestamps
\* and jurisdiction never change, only its accepted flag may; requestDivorce
\* changes only isActive of the marriage it names and the index entries of
\* that marriage's two spouses, and leaves proposals, other marriages, other
\* index entries, the consumed set and the configuration as they were; the
\* read operations change nothing.
C37_FrameConditions ==
    [][/\ \A i \in DOMAIN proposals :
            proposals[i].proposerNullifier # 0 =>
              proposals'[i] = [proposals[i] EXCEPT
                                 !.isAccepted = proposals'[i].isAccepted]
       /\ \A i \in DOMAIN mrProposals :
            mrProposals[i].proposer # 0 =>
              mrProposals'[i] = [mrProposals[i] EXCEPT
                                   !.isAccepted = mrProposals'[i].isAccepted]
       /\ (CallStep /\ last'.op = "requestDivorce") =>
            /\ UNCHANGED <<proposals, usedNullifiers, zkPassportVerifier,
                           mrProposals, zkPassportMerkleRoot>>
            /\ DOMAIN marriages' = DOMAIN marriages
            /\ \A m \in DOMAIN marriages :
                 IF m = last'.id /\ registry = REAL
                 THEN marriages'[m] = [marriages[m] EXCEPT
                                         !.isActive = marriages'[m].isActive]
                 ELSE marriages'[m] = marriages[m]
            /\ \A n \in Nullifiers :
                 nullifierToMarriage'[n] # nullifierToMarriage[n] =>
                   /\ registry = REAL
                   /\ n \in {MarriageAt(last'.id).spouse1Nullifier,
                             MarriageAt(last'.id).spouse2Nullifier}
            /\ DOMAIN mrMarriages' = DOMAIN mrMarriages
            /\ \A m \in DOMAIN mrMarriages :
                 IF m = last'.id /\ registry = SIMPLE
                 THEN mrMarriages'[m] = [mrMarriages[m] EXCEPT
                          !.isActive = mrMarriages'[m].isActive]
                 ELSE mrMarriages'[m] = mrMarriages[m]
            /\ \A h \in PersonHashes :
                 personToMarriage'[h] # personToMarriage[h] =>
                   /\ registry = SIMPLE
                   /\ h \in {MrMarriageAt(last'.id).spouse1Hash,
                             MrMarriageAt(last'.id).spouse2Hash}
       /\ (CallStep /\ last'.op \in ReadOperations) =>
            /\ UNCHANGED <<realVars, mrVars>>
            /\ emitted' = <<>>]_vars

\* a divorce has gone through in a registry that holds an accepted proposal
\* and a second marriage, and the status of a spouse of that second marriage
\* has been read since
C37_Witness ==
    /\ registry = REAL
    /\ last.op = "getMarriageStatusByNullifier"
    /\ last.result[1]
    /\ \E i \in DOMAIN proposals : proposals[i].isAccepted
    /\ \E m \in DOMAIN marriages : ~marriages[m].isActive

\* the executeMarriage calls in flight at the given await
ExecutesAt(pc) ==
    {call \in InFlight : call.fn = "executeMarriage" /\ call.pc = pc}

\* C38: executeMarriage is not replayable.  When an executeMarriage of a
\* proposal succeeds, the pending verifications and the completed proofs of
\* both roles are gone; a completed proof comes back only through a
\* submission; and an executeMarriage called while a proof is missing returns
\* success = false at once, without a call to the contract.  An
\* executeMarriage whose contract call fails returns success = false and
\* removes nothing from the stored proofs.
C38_NotReplayable ==
    [][/\ \A call \in ExecutesAt("wait") :
            calls' = Finish(call) =>
              /\ svcLast'.fn = "executeMarriage"
              /\ svcLast'.success
              /\ \A role \in Roles :
                   LET key == VerificationKey(call.proposalId, role)
                   IN  /\ key \notin DOMAIN completedProofs'
                       /\ key \notin DOMAIN pendingVerifications'
       /\ (svcLast' # svcLast /\ svcLast'.fn = "executeMarriage"
                             /\ svcLast'.success) =>
            \E call \in ExecutesAt("wait") : calls' = Finish(call)
       /\ \A key \in DOMAIN completedProofs' :
            (\/ key \notin DOMAIN completedProofs
             \/ completedProofs'[key] # ProofGet(key)) =>
              \E call \in SubmitsAt("verifyProof") :
                /\ key = VerificationKey(call.proposalId, call.role)
                /\ CopiesIn(call, calls') < CopiesIn(call, calls)
       /\ \A call \in BagToSet(calls') :
            (/\ call.fn = "executeMarriage"
             /\ CopiesIn(call, calls') > CopiesIn(call, calls)
             /\ call.pc = "canMarry") =>
               \A role \in Roles :
                 VerificationKey(call.proposalId, role)
                     \in DOMAIN completedProofs
       /\ (/\ svcLast' # svcLast
           /\ svcLast'.fn = "executeMarriage"
           /\ svcLast'.error =
                 "Both parties must complete zkPassport verification first") =>
            /\ ~svcLast'.success
            /\ calls' = calls
            /\ last' = last
            /\ UNCHANGED realVars
       /\ \A call \in ExecutesAt("createMarriage") :
            (calls' = Finish(call) /\ last'.result # OK) =>
              /\ svcLast'.fn = "executeMarriage"
              /\ ~svcLast'.success
              /\ svcLast'.error = "Failed to execute marriage on blockchain"
              /\ completedProofs' = completedProofs
              /\ pendingVerifications' = pendingVerifications]_vars

\* the signer's createMarriage went through, the clean-up ran, and an
\* executeMarriage called after it has been turned away at once
C38_Witness ==
    /\ last.op = "createMarriage"
    /\ last.sender = Signer
    /\ last.result = OK
    /\ pendingVerifications = <<>>
    /\ completedProofs = <<>>
    /\ svcLast.fn = "executeMarriage"
    /\ svcLast.error =
          "Both parties must complete zkPassport verification first"

\* C39: when two executeMarriage calls of one proposal interleave at their
\* awaits, both having read the stored proofs, at most one of them leaves an
\* active marriage of the two nullifiers in the registry: the createMarriage
\* of a call goes through only for two unused nullifiers and marks both
\* used for good, and the createMarriage of the other call is rejected with
\* NullifierAlreadyUsed, writes nothing, and that call returns
\* success = false.
C39_ConcurrentExecutions ==
    /\ [](registry = REAL =>
            \A n \in Nullifiers \ {0} : Cardinality(ActiveMarriagesOf(n)) <= 1)
    /\ [][/\ \A n \in Nullifiers : usedNullifiers[n] => usedNullifiers'[n]
           /\ \A call \in ExecutesAt("createMarriage") :
                CopiesIn(call, calls') < CopiesIn(call, calls) =>
                  LET n1 == call.proposerProof.nullifier
                      n2 == call.proposeeProof.nullifier
                      ahead == {other \in ExecutesAt("wait") :
                                  /\ other.proposalId = call.proposalId
                                  /\ other.proposerProof.nullifier = n1
                                  /\ other.proposeeProof.nullifier = n2}
                  IN  /\ last'.op = "createMarriage"
                      /\ last'.sender = Signer
                      /\ last'.a = n1
                      /\ last'.b = n2
                      /\ last'.result = OK =>
                           /\ ~usedNullifiers[n1]
                           /\ ~usedNullifiers[n2]
                           /\ usedNullifiers'[n1]
                           /\ usedNullifiers'[n2]
                           /\ calls' = Continue(call,
                                                [call EXCEPT !.pc = "wait"])
                      /\ (ahead # {} \/ usedNullifiers[n1]
                                     \/ usedNullifiers[n2]) =>
                           /\ last'.result = "NullifierAlreadyUsed"
                           /\ calls' = Finish(call)
                           /\ svcLast'.fn = "executeMarriage"
                           /\ ~svcLast'.success
                           /\ UNCHANGED realVars]_vars

\* of two executeMarriage calls of one proposal the first awaits the receipt
\* of its transaction and the second has just been returned the registry's
\* NullifierAlreadyUsed
C39_Witness ==
    /\ svcLast.fn = "executeMarriage"
    /\ ~svcLast.success
    /\ svcLast.errors = <<"NullifierAlreadyUsed">>
    /\ last.sender = Signer
    /\ last.result = "NullifierAlreadyUsed"
    /\ \E other \in ExecutesAt("wait") :
         /\ other.proposerProof.nullifier = last.a
         /\ other.proposeeProof.nullifier = last.b

\* C40: when the proposer's and the proposee's submitZKPassportProof of one
\* proposal are in flight together at verifyProof and both proofs verify,
\* both proofs end up stored and at least one of the two calls evaluates
\* canMarry on both: each call, resuming, records its proof; recorded proofs
\* stay; and a call that resumes when the other role's proof is recorded
\* goes on to canMarry with the two recorded proofs, its return carrying
\* canMarry's verdict, so only the first of the two to resume can return
\* canProceed = false for having seen its own proof alone.
C40_ConcurrentSubmissions ==
    [][/\ \A key \in DOMAIN completedProofs : key \in DOMAIN completedProofs'
       /\ \A call \in SubmitsAt("verifyProof") :
            (/\ CopiesIn(call, calls') < CopiesIn(call, calls)
             /\ call.proofData.complete
             /\ call.proofData.verified) =>
               LET key == VerificationKey(call.proposalId, call.role)
                   proposerKey == VerificationKey(call.proposalId, "proposer")
                   proposeeKey == VerificationKey(call.proposalId, "proposee")
                   otherKey == IF call.role = "proposer"
                               THEN proposeeKey ELSE proposerKey
               IN  /\ key \in DOMAIN completedProofs'
                   /\ completedProofs'[key].isValid
                   /\ completedProofs'[key].proofData = call.proofData
                   /\ otherKey \in DOMAIN completedProofs =>
                        /\ completedProofs'[otherKey] =
                              completedProofs[otherKey]
                        /\ calls' = Continue(call,
                              [call EXCEPT
                                 !.pc = "canMarry",
                                 !.proposerProof =
                                     completedProofs'[proposerKey],
                                 !.proposeeProof =
                                     completedProofs'[proposeeKey]])
                   /\ otherKey \notin DOMAIN completedProofs =>
                        /\ calls' = Finish(call)
                        /\ svcLast'.isValid
                        /\ ~svcLast'.canProceed
       /\ \A call \in SubmitsAt("canMarry") :
            CopiesIn(call, calls') < CopiesIn(call, calls) =>
              /\ calls' = Finish(call)
              /\ svcLast'.fn = "submitZKPassportProof"
              /\ svcLast'.isValid
              /\ svcLast'.canProceed <=> ~Refused(call)]_vars

\* the two parties' submissions were in flight together: one has returned
\* having seen its own proof alone, and the other, whose proof verifies, has
\* yet to resume
C40_Witness ==
    /\ svcLast.fn = "submitZKPassportProof"
    /\ svcLast.isValid
    /\ ~svcLast.canProceed
    /\ Cardinality(DOMAIN completedProofs) = 1
    /\ \E other \in SubmitsAt("verifyProof") :
         /\ VerificationKey(other.proposalId, other.role)
                \notin DOMAIN completedProofs
         /\ \E role \in Roles :
              VerificationKey(other.proposalId, role)
                  \in DOMAIN completedProofs
         /\ other.proofData.complete
         /\ other.proofData.verified

====
